---- MODULE Spec2Model ----
(***************************************************************************)
(* A model of the mcproxy gateway: the child supervisor (ServerProcess),   *)
(* the hot-reload controller with its config-file watcher, and the         *)
(* namespace resolver with the sandbox access check.                       *)
(*                                                                         *)
(* The gateway runs on one cooperative asyncio loop: a coroutine runs      *)
(* without interruption from one suspension point (an await that blocks)   *)
(* to the next, so every action below is the code between two suspension   *)
(* points of one task.                                                     *)
(***************************************************************************)
EXTENDS Integers, Sequences, FiniteSets, TLC

(***************************************************************************)
(* Part 1.  ServerProcess: one child record, its lock, its OS process and  *)
(* the tasks that run start(), call_tool() and stop() on it.               *)
(***************************************************************************)

\* Bounds of the model. With two concurrent callers the histories are kept
\* short; with one caller (the restart accounting) they are longer.
MaxSpawns == 2          \* OS processes ever spawned, two callers
MaxCalls == 3           \* call_tool invocations ever issued, two callers
MaxRestartSpawns == 4   \* OS processes ever spawned, one caller
MaxRestartCalls == 4    \* call_tool invocations ever issued, one caller

\* self._max_restarts
max_restarts == 3

Callers == {"c1", "c2"}
StartTask == "st"       \* the task spawn_servers creates for _start_server
Tasks == Callers \cup {StartTask}

VARIABLES
    process,        \* self.process: "None", or a handle whose process is
                    \* "running" (returncode None) or "exited"
    tools,          \* self.tools: "none" ([]) or "listed"
    restart_count,  \* self._restart_count
    lock,           \* self._lock: "free" or the task holding it
    waiters,        \* self._lock's FIFO queue of waiting tasks
    pipe,           \* the requests written to self.process that it has
                    \* not been read a reply for, oldest first
    pc,             \* per task: the suspension point it is at ("off": the
                    \* task does not exist in this run)
    ret,            \* per task: who awaits start() ("task", "mgr", "proc")
    callNo,         \* per task: the number of the call it is performing
    nspawn,         \* number of OS processes spawned so far
    ncalls,         \* number of calls issued so far
    restartSpawns,  \* history: spawns made through restart_if_needed
    succStarts      \* history: start() runs that returned True

childVars == <<process, tools, restart_count, lock, waiters, pipe, pc, ret,
               callNo, nspawn, ncalls, restartSpawns, succStarts>>

\* The pool, the reload controller and the watcher (part 2).
VARIABLES
    current_config, \* HotReloadServerManager.current_config
    manager_config, \* ServerManager.config
    servers,        \* ServerManager.servers: name -> record
    detached,       \* the records dropped from the pool whose _start_server
                    \* task has not finished, or whose process runs
    reloading,      \* HotReloadServerManager._reloading
    rl,             \* the locals of the reload_config call in progress
    file,           \* the config file: content and modification time
    last_mtime,     \* ConfigReloader._last_mtime
    wpc,            \* the watch task: "poll", "settle" or "reload" ("off":
                    \* the gateway runs without the watcher)
    nwrites,        \* changes made to the file so far
    nreq,           \* reload_config calls made by other callers so far
    rejected,       \* history: the watcher has met content it cannot load
    refused,        \* history: the number of the last reload request the
                    \* guard refused (0: none)
    repeat          \* history: "again" if the last completed reload applied
                    \* the config of the completed reload before it

reloadVars == <<current_config, manager_config, servers, detached,
                reloading, rl, file, last_mtime, wpc, nwrites, nreq, rejected, refused,
                repeat>>

\* The namespace resolver and the access checks (part 3).
VARIABLES
    namespaces,     \* CapabilityRegistry._namespaces / SandboxManifest.namespaces
    target,         \* the namespace being resolved and checked
    stack,          \* the calls of _resolve_recursive in progress
    visiting,       \* its visiting set
    resolved,       \* its resolved set
    result,         \* what resolve_namespace returned
    npc,            \* "run", "done" (returned) or "raised"
    nvisits,        \* history: namespaces entered by the walk so far
    hostOut,        \* what NamespaceAccessControl.can_access returned
    driverOut       \* what the driver's _NamespaceAccessControl returned

nsVars == <<namespaces, target, stack, visiting, resolved, result, npc,
            nvisits, hostOut, driverOut>>

\* The default endpoint and the validation of groups (part 4).
VARIABLES
    isolated,       \* the namespaces whose definition has isolated: true
    defaultOut,     \* what get_default_servers returned
    groupOut        \* a group definition and what the validations said of it

epVars == <<isolated, defaultOut, groupOut>>

\* The reader of a child's stdout (part 5).
VARIABLES
    lines,          \* what the child writes to stdout, line by line
    pos,            \* the number of lines readline() has returned
    buffer,         \* _read_message's buffer: the lines accumulated
    line_count,     \* _read_message's line_count
    rpc,            \* "read" (in the loop) or "returned"
    rout,           \* what _read_message returned: "reply" or "None"
    npauses         \* the number of readline() timeouts so far

readVars == <<lines, pos, buffer, line_count, rpc, rout, npauses>>

\* The names of the tools in the catalogue (part 6).
VARIABLES
    server_name,    \* the server name given to prefix_tool_name
    tool_name,      \* the tool name given to it
    prefixed_name,  \* what prefix_tool_name returned
    parts           \* what parse_prefixed_tool_name returned

nameVars == <<server_name, tool_name, prefixed_name, parts>>

\* The pool of children seen by its callers (part 7).
VARIABLES
    enabled,        \* per spec of the config: its enabled field
    next_spec,      \* spawn_servers: the index of the spec it is at
    pool,           \* ServerManager.servers with every record's process,
                    \* tools and start task (in: the name is a key)
    fate,           \* history, per name: the last event of the record
    called,         \* history, per name: the tool names of the tools/call
                    \* requests written to the record's process
    request         \* the ServerManager.call_tool call: number, server,
                    \* tool, and where it stands

poolVars == <<enabled, next_spec, pool, fate, called, request>>

\* SandboxExecutor.execute (part 8).
VARIABLES
    code,           \* the code execute is called with
    launched,       \* history: subprocesses launched by the call
    outcome,        \* history: what subprocess.run did
    xpc,            \* where the call stands: "idle", "running", "done"
    reply           \* what the call returned, or that it raised

execVars == <<code, launched, outcome, xpc, reply>>

\* The capability proxy given to sandboxed code (part 9).
VARIABLES
    proxies,        \* the DynamicProxy objects api.server has returned
    pending_calls,  \* the calls handed to the tool executor
    apiOut,         \* the last request made of the proxy and how it ended
    napi            \* requests made

apiVars == <<proxies, pending_calls, apiOut, napi>>

\* SandboxExecutor.validate_code on the text of a code (part 10).
VARIABLES
    text,           \* the code given to validate_code: its size and its
                    \* characters
    verdict         \* what validate_code returned

validVars == <<text, verdict>>

\* ManifestQuery.search (part 11).
VARIABLES
    manifest,       \* per server name: whether build has put it in the
                    \* manifest, and what of it matches the query
    query,          \* the query: "long" (two characters or more) or "empty"
    search_ns,      \* the namespace argument, "None" when there is none
    answers         \* per depth: what search returned

searchVars == <<manifest, query, search_ns, answers>>

\* CapabilityRegistry.build and invalidate_cache (part 12).
VARIABLES
    all_tools,      \* the argument of build: per server, its tool entries
    built,          \* CapabilityRegistry._manifest
    first,          \* history: what the first build returned
    bpc             \* builds and invalidations made

buildVars == <<all_tools, built, first, bpc>>

\* EventHookManager (part 13).
VARIABLES
    hooks,          \* _hooks: per event type, the callbacks registered
    ran,            \* history: the callbacks the last trigger has run
    last_event,     \* _last_event: the results of the last event recorded
    event_history,  \* _event_history: the numbers of the events recorded
    nrecorded,      \* history: events recorded so far
    rebuilt,        \* history: _rebuild_manifest calls made
    trigger_out     \* how the last trigger call ended

eventVars == <<hooks, ran, last_event, event_history, nrecorded, rebuilt, trigger_out>>

\* Configuration change and the registry tables (part 14).
VARIABLES
    reg_namespaces, \* CapabilityRegistry._namespaces
    reg_manifest,   \* whether CapabilityRegistry._manifest holds a manifest
    config_namespaces, \* the namespaces of the configuration in force
    answer          \* the answer of the last resolve_namespace call

configVars == <<reg_namespaces, reg_manifest, config_namespaces, answer>>

\* The event loop during execute (part 15).
VARIABLES
    loop_thread,    \* what the thread of the event loop is doing: "loop"
                    \* (running ready tasks) or "execute" (inside the
                    \* synchronous call made by handle_execute)
    subprocess,     \* the uv subprocess: "none" or "running"
    deadline,       \* the timeout of the execute call, in seconds
    waited,         \* seconds the subprocess has run
    progress,       \* per other task: the steps it has made
    nexec           \* execute calls made

loopVars == <<loop_thread, subprocess, deadline, waited, progress, nexec>>

\* The names in the pool (part 16).
VARIABLES
    list_config,    \* the server list of the pool's current configuration
    pool_names,     \* the keys of ServerManager.servers
    ppc,            \* "new" (constructed), "spawned", "applied"
    napply          \* reload_config calls made

namesVars == <<list_config, pool_names, ppc, napply>>

\* Server health notifications (part 17).
VARIABLES
    manifest_status, \* _manifest["servers"][name]["status"] ("absent": the
                    \* manifest has no entry of that name)
    last_health,    \* the last notification and the way it came in
    nhealth         \* notifications delivered so far

healthVars == <<manifest_status, last_health, nhealth>>

\* The tool calls of sandboxed code (part 18).
VARIABLES
    sb_pc,          \* execute: "idle", "running" (in subprocess.run), "done"
    driver_pending, \* _ToolExecutor._pending of the driver
    executor_calls, \* invocations of the gateway's tool executor
    child_requests, \* tools/call requests written to children
    ndriver,        \* api requests made by the sandboxed code so far
    nhost           \* call_tool requests made of the host proxy so far

sandboxVars == <<sb_pc, driver_pending, executor_calls, child_requests, ndriver, nhost>>

\* The forms of extends (part 19).
VARIABLES
    ext_table,      \* the namespaces of a configuration validation accepted
    ext_name,       \* the namespace last resolved
    ext_out,        \* what the resolve_namespace call did
    nresolve        \* resolve_namespace calls made so far

extendsVars == <<ext_table, ext_name, ext_out, nresolve>>

\* Endpoint names used as namespaces (part 20).
VARIABLES
    ep_groups,      \* CapabilityRegistry._groups
    ep_use,         \* the last use of a name as a namespace, and its outcome
    nuse            \* uses made so far

endpointVars == <<ep_groups, ep_use, nuse>>

vars == <<childVars, reloadVars, nsVars, epVars, readVars, nameVars,
           poolVars, execVars, apiVars, validVars, searchVars, buildVars,
           eventVars, configVars, loopVars, namesVars, healthVars,
           sandboxVars, extendsVars, endpointVars>>

\* What the steps of one part leave alone: the variables of the others.
outsideChild == <<reloadVars, nsVars, epVars, readVars, nameVars, poolVars,
                   execVars, apiVars, validVars, searchVars, buildVars,
                   eventVars, configVars, loopVars, namesVars, healthVars,
                   sandboxVars, extendsVars, endpointVars>>
outsideReload == <<childVars, nsVars, epVars, readVars, nameVars, poolVars,
                    execVars, apiVars, validVars, searchVars, buildVars,
                    eventVars, configVars, loopVars, namesVars, healthVars,
                    sandboxVars, extendsVars, endpointVars>>
outsideNs == <<childVars, reloadVars, epVars, readVars, nameVars, poolVars,
                execVars, apiVars, validVars, searchVars, buildVars,
                eventVars, configVars, loopVars, namesVars, healthVars,
                sandboxVars, extendsVars, endpointVars>>
outsideEp == <<childVars, reloadVars, nsVars, readVars, nameVars, poolVars,
                execVars, apiVars, validVars, searchVars, buildVars,
                eventVars, configVars, loopVars, namesVars, healthVars,
                sandboxVars, extendsVars, endpointVars>>
outsideRead == <<childVars, reloadVars, nsVars, epVars, nameVars, poolVars,
                  execVars, apiVars, validVars, searchVars, buildVars,
                  eventVars, configVars, loopVars, namesVars, healthVars,
                  sandboxVars, extendsVars, endpointVars>>
outsideName == <<childVars, reloadVars, nsVars, epVars, readVars, poolVars,
                  execVars, apiVars, validVars, searchVars, buildVars,
                  eventVars, configVars, loopVars, namesVars, healthVars,
                  sandboxVars, extendsVars, endpointVars>>
outsidePool == <<childVars, reloadVars, nsVars, epVars, readVars, nameVars,
                  execVars, apiVars, validVars, searchVars, buildVars,
                  eventVars, configVars, loopVars, namesVars, healthVars,
                  sandboxVars, extendsVars, endpointVars>>
outsideExec == <<childVars, reloadVars, nsVars, epVars, readVars, nameVars,
                  poolVars, apiVars, validVars, searchVars, buildVars,
                  eventVars, configVars, loopVars, namesVars, healthVars,
                  sandboxVars, extendsVars, endpointVars>>
outsideApi == <<childVars, reloadVars, nsVars, epVars, readVars, nameVars,
                 poolVars, execVars, validVars, searchVars, buildVars,
                 eventVars, configVars, loopVars, namesVars, healthVars,
                 sandboxVars, extendsVars, endpointVars>>
outsideValid == <<childVars, reloadVars, nsVars, epVars, readVars, nameVars,
                   poolVars, execVars, apiVars, searchVars, buildVars,
                   eventVars, configVars, loopVars, namesVars, healthVars,
                   sandboxVars, extendsVars, endpointVars>>
outsideSearch == <<childVars, reloadVars, nsVars, epVars, readVars, nameVars,
                    poolVars, execVars, apiVars, validVars, buildVars,
                    eventVars, configVars, loopVars, namesVars, healthVars,
                    sandboxVars, extendsVars, endpointVars>>
outsideBuild == <<childVars, reloadVars, nsVars, epVars, readVars, nameVars,
                   poolVars, execVars, apiVars, validVars, searchVars,
                   eventVars, configVars, loopVars, namesVars, healthVars,
                   sandboxVars, extendsVars, endpointVars>>
outsideEvent == <<childVars, reloadVars, nsVars, epVars, readVars, nameVars,
                   poolVars, execVars, apiVars, validVars, searchVars,
                   buildVars, configVars, loopVars, namesVars, healthVars,
                   sandboxVars, extendsVars, endpointVars>>
outsideConfig == <<childVars, reloadVars, nsVars, epVars, readVars, nameVars,
                    poolVars, execVars, apiVars, validVars, searchVars,
                    buildVars, eventVars, loopVars, namesVars, healthVars,
                    sandboxVars, extendsVars, endpointVars>>
outsideLoop == <<childVars, reloadVars, nsVars, epVars, readVars, nameVars,
                  poolVars, execVars, apiVars, validVars, searchVars,
                  buildVars, eventVars, configVars, namesVars, healthVars,
                  sandboxVars, extendsVars, endpointVars>>
outsideNames == <<childVars, reloadVars, nsVars, epVars, readVars, nameVars,
                   poolVars, execVars, apiVars, validVars, searchVars,
                   buildVars, eventVars, configVars, loopVars, healthVars,
                   sandboxVars, extendsVars, endpointVars>>
outsideHealth == <<childVars, reloadVars, nsVars, epVars, readVars, nameVars,
                    poolVars, execVars, apiVars, validVars, searchVars,
                    buildVars, eventVars, configVars, loopVars, namesVars,
                    sandboxVars, extendsVars, endpointVars>>
outsideSandbox == <<childVars, reloadVars, nsVars, epVars, readVars,
                     nameVars, poolVars, execVars, apiVars, validVars,
                     searchVars, buildVars, eventVars, configVars, loopVars,
                     namesVars, healthVars, extendsVars, endpointVars>>
outsideExtends == <<childVars, reloadVars, nsVars, epVars, readVars,
                     nameVars, poolVars, execVars, apiVars, validVars,
                     searchVars, buildVars, eventVars, configVars, loopVars,
                     namesVars, healthVars, sandboxVars, endpointVars>>
outsideEndpoint == <<childVars, reloadVars, nsVars, epVars, readVars,
                      nameVars, poolVars, execVars, apiVars, validVars,
                      searchVars, buildVars, eventVars, configVars, loopVars,
                      namesVars, healthVars, sandboxVars, extendsVars>>

\* The child state as one value, so that the code between two suspension
\* points can be written as a composition of functions on it.
St == [process |-> process, tools |-> tools, rc |-> restart_count,
       lock |-> lock, waiters |-> waiters, pipe |-> pipe, pc |-> pc,
       ret |-> ret, callNo |-> callNo, nspawn |-> nspawn,
       ncalls |-> ncalls, restartSpawns |-> restartSpawns,
       succStarts |-> succStarts]

Set(s) ==
    /\ process' = s.process
    /\ tools' = s.tools
    /\ restart_count' = s.rc
    /\ lock' = s.lock
    /\ waiters' = s.waiters
    /\ pipe' = s.pipe
    /\ pc' = s.pc
    /\ ret' = s.ret
    /\ callNo' = s.callNo
    /\ nspawn' = s.nspawn
    /\ ncalls' = s.ncalls
    /\ restartSpawns' = s.restartSpawns
    /\ succStarts' = s.succStarts
    /\ UNCHANGED outsideChild

\* ServerProcess.is_running
is_running(s) == s.process = "running"

\* asyncio.Lock.release: the lock goes to the first waiter, if any.
Release(s) ==
    IF s.waiters = <<>> THEN [s EXCEPT !.lock = "free"]
    ELSE [s EXCEPT !.lock = Head(s.waiters), !.waiters = Tail(s.waiters)]

ReleaseIfHeld(s, t) == IF s.lock = t THEN Release(s) ELSE s

\* call_tool is left, by return or by an exception: the caller is idle again.
Raise(s, t) == [s EXCEPT !.pc[t] = "idle", !.callNo[t] = 0, !.ret[t] = "mgr"]

\* _send_message on a handle: one line on the child's stdin. A write to a
\* process that has exited is lost.
Deliver(s, req) ==
    IF s.process = "running" THEN [s EXCEPT !.pipe = Append(@, req)] ELSE s

\* How a write to the child's stdin goes (_send_message, lines 265-272):
\* the line is taken at once; the pipe of an exited process is broken and
\* the write raises; the line does not fit into the pipe and drain() waits
\* for the child to read. The lines of the start protocol are short and are
\* written to an empty pipe, so they are never held back.
Sends == {"sent", "broken", "full"}

\* _send_message raises: no handle, or the pipe of an exited process.
SendRaises(s, snd) ==
    s.process = "None" \/ (s.process = "exited" /\ snd = "broken")

\* call_tool, lines 204-213: with the lock held, write the tools/call request
\* and start waiting for the reply.
SendCall(s, t, snd) ==
    IF SendRaises(s, snd) THEN Raise(Release(s), t)
    ELSE [Deliver(s, [m |-> "call", id |-> s.callNo[t]])
            EXCEPT !.pc[t] = IF snd = "full" /\ s.process = "running"
                             THEN "call_send" ELSE "call_wait"]

\* call_tool as it would be without "async with self._lock".
LockedCall_nolock(s, t, snd) ==
    IF ~is_running(s) THEN Raise(s, t) ELSE SendCall(s, t, snd)

\* call_tool, lines 200-204: the liveness check, then async with self._lock.
\* A free lock is taken without suspending; otherwise the task queues.
LockedCall(s, t, snd) ==
    IF ~is_running(s) THEN Raise(s, t)
    ELSE IF s.lock = "free" THEN SendCall([s EXCEPT !.lock = t], t, snd)
    ELSE [s EXCEPT !.waiters = Append(@, t), !.pc[t] = "call_lock"]

\* restart_if_needed with the bound test off by one.
restart_if_needed_gt(s, t, from) ==
    IF s.rc > max_restarts THEN Raise(s, t)
    ELSE [s EXCEPT !.rc = @ + 1, !.pc[t] = "sleep", !.ret[t] = from]

\* restart_if_needed that does not count the attempt.
restart_if_needed_nocount(s, t, from) ==
    IF s.rc >= max_restarts THEN Raise(s, t)
    ELSE [s EXCEPT !.pc[t] = "sleep", !.ret[t] = from]

\* restart_if_needed, lines 164-181, entered with the child not running:
\* refuse at the bound, else count the attempt and sleep 2 s.
restart_if_needed(s, t, from) ==
    IF s.rc >= max_restarts THEN Raise(s, t)
    ELSE [s EXCEPT !.rc = @ + 1, !.pc[t] = "sleep", !.ret[t] = from]

\* ServerProcess.call_tool, lines 185-201.
call_tool(s, t, snd) ==
    IF ~is_running(s) THEN restart_if_needed(s, t, "proc")
    ELSE LockedCall(s, t, snd)

\* ServerManager.call_tool, lines 459-476 (the server is a known child).
manager_call_tool(s, t, snd) ==
    IF ~is_running(s) THEN restart_if_needed(s, t, "mgr")
    ELSE call_tool(s, t, snd)

\* start() has returned ok to whoever awaited it: _start_server (the task
\* ends), ServerManager.call_tool (line 470) or ServerProcess.call_tool
\* (line 194).
StartReturn(s, t, ok, snd) ==
    CASE s.ret[t] = "task" -> [s EXCEPT !.pc[t] = "done"]
      [] s.ret[t] = "mgr" ->
            IF ok THEN call_tool(s, t, snd) ELSE Raise(s, t)
      [] OTHER ->
            IF ok THEN LockedCall(s, t, snd) ELSE Raise(s, t)

\* stop(), lines 131-154, as start's failure paths run it ("await
\* self.stop(); return False"): nothing to do without a handle; an exited
\* process is forgotten at once; a running one is sent the termination
\* signal and awaited, with k replies left to read on its stdout.
StopThenFail(s, t, k, snd) ==
    IF s.process = "None" THEN StartReturn(ReleaseIfHeld(s, t), t, FALSE, snd)
    ELSE IF s.process = "exited"
    THEN StartReturn(
            ReleaseIfHeld([s EXCEPT !.process = "None", !.tools = "none",
                                    !.pipe = <<>>], t),
            t, FALSE, snd)
    ELSE [s EXCEPT !.process = "exited", !.pc[t] = "stop_wait",
                   !.pipe = SubSeq(@, 1, IF k <= Len(@) THEN k ELSE Len(@))]

\* start, lines 80-93: with the lock held, write the initialize request.
SendInit(s, t, k, snd) ==
    IF SendRaises(s, snd) THEN StopThenFail(Release(s), t, k, snd)
    ELSE [Deliver(s, [m |-> "init", id |-> 0]) EXCEPT !.pc[t] = "init_wait"]

\* _discover_tools, lines 251-255: with the lock held, write tools/list.
SendList(s, t, k, snd) ==
    IF SendRaises(s, snd) THEN StopThenFail(Release(s), t, k, snd)
    ELSE [Deliver(s, [m |-> "list", id |-> 0]) EXCEPT !.pc[t] = "disc_wait"]

\* _discover_tools, line 251: async with self._lock.
discover_tools(s, t, k, snd) ==
    IF s.lock = "free" THEN SendList([s EXCEPT !.lock = t], t, k, snd)
    ELSE [s EXCEPT !.waiters = Append(@, t), !.pc[t] = "disc_lock"]

\* start, line 80: async with self._lock.
LockedInit(s, t, k, snd) ==
    IF s.lock = "free" THEN SendInit([s EXCEPT !.lock = t], t, k, snd)
    ELSE [s EXCEPT !.waiters = Append(@, t), !.pc[t] = "init_lock"]

\* start, lines 114-118: discovery is over, the start succeeded.
StartSucceeds(s, t, snd) ==
    StartReturn([s EXCEPT !.rc = 0, !.succStarts = @ + 1], t, TRUE, snd)

\* What _read_message can return at this moment, reading self.process.stdout:
\* the next JSON line (the child answers its requests in order), or None at
\* end of stream or without a handle.
CanRead(s) == s.process # "None" /\ s.pipe # <<>>
ReadsNone(s) == s.process = "None" \/ (s.process = "exited" /\ s.pipe = <<>>)
\* The deadline of the enclosing wait_for passes before the child writes.
TimesOut(s) == s.process = "running"
NextReply(s) == Head(s.pipe)
Consume(s) == [s EXCEPT !.pipe = Tail(@)]
Kinds == {"result", "error"}

\* The bounds in force: those of the run with one caller if a caller is off.
OneCaller == \E t \in Callers : pc[t] = "off"
CallLimit == IF OneCaller THEN MaxRestartCalls ELSE MaxCalls
SpawnLimit == IF OneCaller THEN MaxRestartSpawns ELSE MaxSpawns
Cuts == 0..Len(pipe)

\* A request arrives: ServerManager.call_tool runs up to its first
\* suspension point.
CallStart(t) ==
    /\ pc[t] = "idle"
    /\ ncalls < CallLimit
    /\ \E snd \in Sends :
          Set(manager_call_tool(
                [St EXCEPT !.ncalls = @ + 1, !.callNo[t] = ncalls + 1],
                t, snd))

\* start, line 70: create_subprocess_exec returns a new process and the
\* handle is stored; the code then runs on to the lock. For a restart this
\* is the step at which the 2 s sleep of restart_if_needed ends.
SpawnOk(t) ==
    /\ pc[t] \in {"spawn", "sleep"}
    /\ nspawn < SpawnLimit
    /\ \E snd \in Sends, k \in Cuts :
          Set(LockedInit(
                [St EXCEPT !.process = "running", !.pipe = <<>>,
                           !.nspawn = @ + 1,
                           !.restartSpawns =
                               IF ret[t] = "task" THEN @ ELSE @ + 1],
                t, k, snd))

\* start, lines 70 and 126-129: create_subprocess_exec raises.
SpawnFails(t) ==
    /\ pc[t] \in {"spawn", "sleep"}
    /\ \E snd \in Sends, k \in Cuts : Set(StopThenFail(St, t, k, snd))

\* start, line 80: the queued task is handed the lock.
InitLockGranted(t) ==
    /\ pc[t] = "init_lock"
    /\ lock = t
    /\ \E snd \in Sends, k \in Cuts : Set(SendInit(St, t, k, snd))

\* start, lines 96-115: a line is read while waiting for the initialize
\* reply. Any reply carrying "result" is taken as success.
InitReply(t) ==
    /\ pc[t] = "init_wait"
    /\ CanRead(St)
    /\ \E kind \in Kinds, snd \in Sends, k \in Cuts :
          LET s == Consume(St) IN
          IF kind = "result"
          THEN IF SendRaises(s, snd)
               THEN Set(StopThenFail(Release(s), t, k, snd))
               ELSE Set(discover_tools(Release(s), t, k, snd))
          ELSE Set(StopThenFail(s, t, k, snd))

\* start, lines 96-112: _read_message returns None.
InitNoReply(t) ==
    /\ pc[t] = "init_wait"
    /\ ReadsNone(St)
    /\ \E snd \in Sends, k \in Cuts : Set(StopThenFail(St, t, k, snd))

\* start, lines 96 and 120-125: wait_for raises TimeoutError, which leaves
\* the async with block before stop() runs.
InitTimeout(t) ==
    /\ pc[t] = "init_wait"
    /\ TimesOut(St)
    /\ \E snd \in Sends, k \in Cuts :
          Set(StopThenFail(Release(St), t, k, snd))

\* _discover_tools, line 251: the queued task is handed the lock.
DiscLockGranted(t) ==
    /\ pc[t] = "disc_lock"
    /\ lock = t
    /\ \E snd \in Sends, k \in Cuts : Set(SendList(St, t, k, snd))

\* _discover_tools, lines 255-264: a line is read; the tool list is taken
\* from it if it has one.
DiscReply(t) ==
    /\ pc[t] = "disc_wait"
    /\ CanRead(St)
    /\ \E kind \in Kinds, snd \in Sends :
          LET r == NextReply(St)
              s == [Consume(St) EXCEPT !.tools =
                       IF r.m = "list" /\ kind = "result"
                       THEN "listed" ELSE "none"]
          IN Set(StartSucceeds(Release(s), t, snd))

\* _discover_tools, lines 255-264: _read_message returns None.
DiscNoReply(t) ==
    /\ pc[t] = "disc_wait"
    /\ ReadsNone(St)
    /\ \E snd \in Sends :
          Set(StartSucceeds(Release([St EXCEPT !.tools = "none"]), t, snd))

\* _discover_tools, line 255, and start, lines 120-125: the 30 s deadline.
DiscTimeout(t) ==
    /\ pc[t] = "disc_wait"
    /\ TimesOut(St)
    /\ \E snd \in Sends, k \in Cuts :
          Set(StopThenFail(Release(St), t, k, snd))

\* call_tool, line 204: the queued task is handed the lock.
CallLockGranted(t) ==
    /\ pc[t] = "call_lock"
    /\ lock = t
    /\ \E snd \in Sends : Set(SendCall(St, t, snd))

\* call_tool, lines 222-247: a line without "error" is read and its result
\* returned to the caller.
CallResult(t) ==
    /\ pc[t] = "call_wait"
    /\ CanRead(St)
    /\ Set(Raise(Release(Consume(St)), t))

\* call_tool, lines 239-244: a line with "error" is read.
CallError(t) ==
    /\ pc[t] = "call_wait"
    /\ CanRead(St)
    /\ Set(Raise(Release(Consume(St)), t))

\* call_tool, lines 233-237: _read_message returns None.
CallNoReply(t) ==
    /\ pc[t] = "call_wait"
    /\ ReadsNone(St)
    /\ Set(Raise(Release(St), t))

\* call_tool, lines 221-231: the 350 s deadline passes. Nothing is read.
CallTimeout(t) ==
    /\ pc[t] = "call_wait"
    /\ TimesOut(St)
    /\ Set(Raise(Release(St), t))

\* The caller's task is cancelled while it waits for the reply or for the
\* write to go through.
CallCancelled(t) ==
    /\ pc[t] \in {"call_wait", "call_send"}
    /\ Set(Raise(Release(St), t))

\* call_tool, line 213: the child has read its stdin, drain() returns and
\* the wait for the reply begins.
CallDrained(t) ==
    /\ pc[t] = "call_send"
    /\ process = "running"
    /\ Set([St EXCEPT !.pc[t] = "call_wait"])

\* call_tool, line 213: the child is gone, drain() raises.
CallSendBroken(t) ==
    /\ pc[t] = "call_send"
    /\ process # "running"
    /\ Set(Raise(Release(St), t))

\* stop, lines 143-154: the terminated process has been reaped; the handle
\* and the tool list are cleared, and start returns False.
StopWaitDone(t) ==
    /\ pc[t] = "stop_wait"
    /\ \E snd \in Sends :
          Set(StartReturn(
                ReleaseIfHeld([St EXCEPT !.process = "None",
                                         !.tools = "none", !.pipe = <<>>],
                              t),
                t, FALSE, snd))

\* The child process dies, having answered the k oldest requests.
ChildCrash(k) ==
    /\ process = "running"
    /\ k <= Len(pipe)
    /\ Set([St EXCEPT !.process = "exited", !.pipe = SubSeq(@, 1, k)])

ChildNext ==
    \/ \E t \in Callers : CallStart(t)
    \/ \E t \in Tasks : SpawnOk(t)
    \/ \E t \in Tasks : SpawnFails(t)
    \/ \E t \in Tasks : InitLockGranted(t)
    \/ \E t \in Tasks : InitReply(t)
    \/ \E t \in Tasks : InitNoReply(t)
    \/ \E t \in Tasks : InitTimeout(t)
    \/ \E t \in Tasks : DiscLockGranted(t)
    \/ \E t \in Tasks : DiscReply(t)
    \/ \E t \in Tasks : DiscNoReply(t)
    \/ \E t \in Tasks : DiscTimeout(t)
    \/ \E t \in Callers : CallLockGranted(t)
    \/ \E t \in Callers : CallResult(t)
    \/ \E t \in Callers : CallError(t)
    \/ \E t \in Callers : CallNoReply(t)
    \/ \E t \in Callers : CallTimeout(t)
    \/ \E t \in Callers : CallCancelled(t)
    \/ \E t \in Callers : CallDrained(t)
    \/ \E t \in Callers : CallSendBroken(t)
    \/ \E t \in Tasks : StopWaitDone(t)
    \/ \E k \in Cuts : ChildCrash(k)

(***************************************************************************)
(* Part 2.  HotReloadServerManager and ConfigReloader: the pool of child   *)
(* records, reload_config, and the task that polls the config file.        *)
(* A child is seen here through its record in the pool and the progress    *)
(* of the _start_server task created with it.                              *)
(***************************************************************************)

\* Bounds of the model.
MaxWrites == 2          \* changes made to the config file
MaxRequests == 3        \* reload_config calls made

\* self._last_mtime = None, config_reloader.py line 37.
NoMtime == 0 - 1

Names == {"A", "B", "C"}
NameSeq == <<"A", "B", "C">>

\* A server entry of the config, by the fields _server_config_changed
\* compares: args, and enabled, which may be omitted. The other fields
\* (command, env, timeout) are the same in every entry.
Run1 == [args |-> "v1", enabled |-> "omitted"]
Run2 == [args |-> "v2", enabled |-> "omitted"]
Off1 == [args |-> "v1", enabled |-> "false"]
Choices(n) == IF n = "B" THEN {Run1, Run2, Off1} ELSE {Run1}

\* The configs explored: "A" is in every one with the same entry, "B" in
\* every one with an entry that varies, "C" comes and goes.
Varying == Names \ {"A"}
Always == {"A", "B"}

\* A validated config, as the dict reload_config builds from its server
\* list: name -> entry.
Configs ==
    UNION {{c \in [S -> {Run1, Run2, Off1}] :
                \A n \in S : c[n] \in Choices(n)} :
           S \in {S \in SUBSET Names : Always \subseteq S}}
EmptyCfg == [n \in {} |-> Run1]
\* What a lenient reading of a broken file would give.
BrokenCfg == [n \in Always |-> Run1]

\* What the config file holds: a config load_config accepts, content it
\* rejects, or nothing (the file is missing).
FileStates ==
    {[kind |-> "valid", cfg |-> c] : c \in Configs}
        \cup {[kind |-> "invalid", cfg |-> BrokenCfg],
              [kind |-> "missing", cfg |-> BrokenCfg]}

\* The orders in which a for loop may visit a Python set of names.
Orders == {o \in [1..Cardinality(Varying) -> Varying] :
              \A i, j \in DOMAIN o : o[i] = o[j] => i = j}
First(order, S) ==
    order[CHOOSE i \in DOMAIN order :
            order[i] \in S /\ \A j \in 1..(i - 1) : order[j] \notin S]

\* A pool entry: where the record's child stands, and a mark rid that tells
\* a record from the one it replaces under the same name.
\*   "none"     the name is not in the pool (rid: that of its last record)
\*   "created"  constructed, _start_server not yet run, process None
\*   "running"  the process is running
\*   "down"     no running process: start() failed, the child has exited,
\*              or stop() was interrupted
\*   "stopping" terminate() sent by stop(), which awaits the exit
InPool(r) == r.st # "none"
NewRid(r) == IF r.rid = 1 THEN 2 ELSE 1

Idle == [owner |-> "none", new |-> EmptyCfg, to_remove |-> {},
         to_update |-> {}, to_add |-> {}, phase |-> "idle", cur |-> "none"]

RS == [cc |-> current_config, mc |-> manager_config, servers |-> servers,
       detached |-> detached, reloading |-> reloading, rl |-> rl,
       wpc |-> wpc, repeat |-> repeat]

SetR(s) ==
    /\ current_config' = s.cc
    /\ manager_config' = s.mc
    /\ servers' = s.servers
    /\ detached' = s.detached
    /\ reloading' = s.reloading
    /\ rl' = s.rl
    /\ wpc' = s.wpc
    /\ repeat' = s.repeat

\* _server_config_changed, with old.get(field) != new.get(field).
server_config_changed(old, new) ==
    old.args # new.args \/ old.enabled # new.enabled

\* reload_config, lines 173-185.
to_remove(old, new) == DOMAIN old \ DOMAIN new
to_add(old, new) == DOMAIN new \ DOMAIN old
to_update(old, new) ==
    {n \in DOMAIN old \cap DOMAIN new : server_config_changed(old[n], new[n])}

\* server_config.get("enabled", True)
Enabled(entry) == entry.enabled # "false"

\* reload_config, lines 169-185: the guard is set and the differences found.
Begin(s, owner, c) ==
    [s EXCEPT !.reloading = TRUE,
              !.rl = [owner |-> owner, new |-> c,
                      to_remove |-> to_remove(s.cc, c),
                      to_update |-> to_update(s.cc, c),
                      to_add |-> to_add(s.cc, c),
                      phase |-> "run", cur |-> "none"]]

\* reload_config, lines 196-197 and 203-205: stop() has returned for n, the
\* record is dropped, and an updated name joins to_add. The _start_server
\* task of a record that has not spawned yet still holds the record.
Drop(s, n, upd) ==
    [s EXCEPT !.servers[n].st = "none",
              !.detached = IF s.servers[n].st = "created"
                           THEN @ \cup {[name |-> n, rid |-> s.servers[n].rid,
                                         st |-> "created"]}
                           ELSE @,
              !.rl.to_remove = @ \ {n},
              !.rl.to_update = @ \ {n},
              !.rl.to_add = IF upd THEN @ \cup {n} ELSE @,
              !.rl.phase = "run", !.rl.cur = "none"]

\* reload_config, lines 210-229: a record is constructed for every enabled
\* name of to_add and its _start_server task created.
RECURSIVE AddAll(_, _)
AddAll(s, i) ==
    IF i > Len(NameSeq) THEN s
    ELSE LET n == NameSeq[i] IN
         IF n \in s.rl.to_add /\ Enabled(s.rl.new[n])
         THEN AddAll([s EXCEPT !.servers[n] =
                                   [rid |-> NewRid(@), st |-> "created"]],
                     i + 1)
         ELSE AddAll(s, i + 1)

\* reload_config, lines 207-238: the additions, the config references, and
\* the guard cleared on the way out; the caller gets control back.
Finish(s) ==
    LET a == AddAll(s, 1) IN
    [a EXCEPT !.cc = s.rl.new, !.mc = s.rl.new,
              !.reloading = FALSE, !.rl = Idle,
              !.wpc = IF s.rl.owner = "w" THEN "poll" ELSE @,
              !.repeat = IF s.rl.new = s.cc /\ s.repeat # "none"
                         THEN "again" ELSE "first"]

\* reload_config, lines 192-205: the two stop loops, run until a stop()
\* suspends (a running child is sent the termination signal and awaited) or
\* both loops are done. stop() returns at once on a record without a running
\* process.
RECURSIVE StopLoops(_, _)
StopLoops(s, order) ==
    LET upd == s.rl.to_remove = {}
        todo == IF upd THEN s.rl.to_update ELSE s.rl.to_remove
    IN
    IF todo = {} THEN Finish(s)
    ELSE LET n == First(order, todo) IN
         IF s.servers[n].st = "running"
         THEN [s EXCEPT !.servers[n].st = "stopping",
                        !.rl.phase = IF upd THEN "update_wait"
                                     ELSE "remove_wait",
                        !.rl.cur = n]
         ELSE StopLoops(Drop(s, n, upd), order)

\* reload_config with the guard left out.
reload_config_noguard(s, owner, c, order) ==
    StopLoops(Begin(s, owner, c), order)

\* reload_config that compares entries with the default filled in for the
\* new entry only.
reload_config_default(s, owner, c, order) ==
    IF s.reloading THEN s
    ELSE LET b == Begin(s, owner, c) IN
         StopLoops([b EXCEPT !.rl.to_update =
                        @ \cup {n \in Varying \cap DOMAIN s.cc \cap DOMAIN c :
                                  s.cc[n].enabled = "omitted"}], order)

\* HotReloadServerManager.reload_config, lines 156-238, up to its first
\* suspension point.
reload_config(s, owner, c, order) ==
    IF s.reloading THEN s
    ELSE StopLoops(Begin(s, owner, c), order)

\* Another caller invokes reload_config with a validated config.
DirectRequest(c, order) ==
    /\ nreq < MaxRequests
    /\ nreq' = nreq + 1
    /\ refused' = IF reloading THEN nreq' ELSE refused
    /\ SetR(reload_config(RS, "rq", c, order))
    /\ UNCHANGED <<file, last_mtime, nwrites, rejected>>
    /\ UNCHANGED outsideReload

\* _check_for_changes, lines 80-91: the poll finds a new modification time,
\* records it and sleeps 0.1 s.
WatchPoll ==
    /\ wpc = "poll"
    /\ file.kind # "missing"
    /\ file.mtime # last_mtime
    /\ last_mtime' = file.mtime
    /\ wpc' = "settle"
    /\ UNCHANGED <<current_config, manager_config, servers, detached,
                   reloading, rl, file, nwrites, nreq, rejected, refused,
                   repeat>>
    /\ UNCHANGED outsideReload

\* load_config that takes whatever the file holds.
load_config_any(f) == [ok |-> TRUE, cfg |-> f.cfg]

\* load_config, config_watcher.py lines 24-58: ConfigError on a missing
\* file, on invalid JSON and on a failed validation.
load_config(f) ==
    IF f.kind = "valid" THEN [ok |-> TRUE, cfg |-> f.cfg]
    ELSE [ok |-> FALSE, cfg |-> EmptyCfg]

\* _reload_config, lines 97-115: load_config raises on a missing or invalid
\* file and nothing is applied; otherwise the callback is called with the
\* loaded config.
WatchLoad(order) ==
    /\ wpc = "settle"
    /\ LET l == load_config(file) IN
       IF ~l.ok
       THEN /\ rejected' = TRUE
            /\ wpc' = "poll"
            /\ UNCHANGED <<current_config, manager_config, servers, detached,
                           reloading, rl, repeat>>
       ELSE /\ LET s == reload_config(RS, "w", l.cfg, order) IN
               SetR([s EXCEPT !.wpc = IF s.reloading /\ s.rl.owner = "w"
                                      THEN "reload" ELSE "poll"])
            /\ UNCHANGED rejected
    /\ UNCHANGED <<file, last_mtime, nwrites, nreq, refused>>
    /\ UNCHANGED outsideReload

\* stop, lines 143-154, inside reload_config: the awaited child has exited;
\* the record is dropped and the loops go on.
ReloadStopDone(order) ==
    /\ reloading
    /\ rl.phase \in {"remove_wait", "update_wait"}
    /\ SetR(StopLoops(Drop(RS, rl.cur, rl.phase = "update_wait"), order))
    /\ UNCHANGED <<file, last_mtime, nwrites, nreq, rejected, refused>>
    /\ UNCHANGED outsideReload

\* The task of the other caller is cancelled while stop() awaits the exit:
\* stop's finally clears the handle, reload_config's finally clears the
\* guard, and nothing else of the reload is done.
ReloadCancelled ==
    /\ reloading
    /\ rl.owner = "rq"
    /\ rl.phase \in {"remove_wait", "update_wait"}
    /\ servers' = [servers EXCEPT ![rl.cur].st = "down"]
    /\ reloading' = FALSE
    /\ rl' = Idle
    /\ UNCHANGED <<current_config, manager_config, detached, file,
                   last_mtime, wpc, nwrites, nreq, rejected, refused, repeat>>
    /\ UNCHANGED outsideReload

\* Somebody rewrites, corrupts or removes the config file.
FileWrite(f) ==
    /\ nwrites < MaxWrites
    /\ nwrites' = nwrites + 1
    /\ file' = [kind |-> f.kind, cfg |-> f.cfg, mtime |-> file.mtime + 1]
    /\ UNCHANGED <<current_config, manager_config, servers, detached,
                   reloading, rl, last_mtime, wpc, nreq, rejected, refused,
                   repeat>>
    /\ UNCHANGED outsideReload

\* What a step of a record's child leaves alone.
poolFrame == <<current_config, manager_config, reloading, rl, file,
               last_mtime, wpc, nwrites, nreq, rejected, refused, repeat>>

\* start, line 70, in the record's _start_server task: the process is
\* spawned.
PoolStartSpawn(n) ==
    /\ servers[n].st = "created"
    /\ servers' = [servers EXCEPT ![n].st = "running"]
    /\ UNCHANGED <<detached, poolFrame, outsideReload>>

\* start, lines 126-129: the spawn fails.
PoolStartFails(n) ==
    /\ servers[n].st = "created"
    /\ servers' = [servers EXCEPT ![n].st = "down"]
    /\ UNCHANGED <<detached, poolFrame, outsideReload>>

\* The child exits on its own, or start() stops it after a failed handshake.
PoolChildExit(n) ==
    /\ servers[n].st = "running"
    /\ servers' = [servers EXCEPT ![n].st = "down"]
    /\ UNCHANGED <<detached, poolFrame, outsideReload>>

\* The records reload_config may have dropped with their task unfinished.
Records == [name : Names, rid : {1, 2}, st : {"created", "running"}]

\* start, line 70, in the _start_server task of a record that reload_config
\* has dropped: the process is spawned all the same.
DetachedStartSpawn(r) ==
    /\ r \in detached
    /\ r.st = "created"
    /\ detached' = (detached \ {r}) \cup {[r EXCEPT !.st = "running"]}
    /\ UNCHANGED <<servers, poolFrame, outsideReload>>

\* start, lines 126-129, for a dropped record: the spawn fails and the task
\* ends, the last holder of the record.
DetachedStartFails(r) ==
    /\ r \in detached
    /\ r.st = "created"
    /\ detached' = detached \ {r}
    /\ UNCHANGED <<servers, poolFrame, outsideReload>>

\* The child of a dropped record exits on its own, or its start() stops it
\* after a failed handshake.
DetachedChildExit(r) ==
    /\ r \in detached
    /\ r.st = "running"
    /\ detached' = detached \ {r}
    /\ UNCHANGED <<servers, poolFrame, outsideReload>>

\* reload_config called by tasks of the gateway.
ReloadNext ==
    \/ \E c \in Configs, order \in Orders : DirectRequest(c, order)
    \/ \E order \in Orders : ReloadStopDone(order)
    \/ ReloadCancelled
    \/ \E n \in Names : PoolStartSpawn(n)
    \/ \E n \in Names : PoolStartFails(n)
    \/ \E n \in Names : PoolChildExit(n)
    \/ \E r \in Records : DetachedStartSpawn(r)
    \/ \E r \in Records : DetachedStartFails(r)
    \/ \E r \in Records : DetachedChildExit(r)

\* reload_config called by the watcher, as main() wires it.
WatchNext ==
    \/ WatchPoll
    \/ \E order \in Orders : WatchLoad(order)
    \/ \E order \in Orders : ReloadStopDone(order)
    \/ \E f \in FileStates : FileWrite(f)
    \/ \E n \in Names : PoolStartSpawn(n)
    \/ \E n \in Names : PoolStartFails(n)
    \/ \E n \in Names : PoolChildExit(n)
    \/ \E r \in Records : DetachedStartSpawn(r)
    \/ \E r \in Records : DetachedStartFails(r)
    \/ \E r \in Records : DetachedChildExit(r)

\* ConfigReloader.start, lines 41-53, which main() awaits after load_config,
\* spawn_servers and a sleep of 2 s (main.py lines 96-125): the modification
\* time the file has by then is recorded and the watch task created.
WatcherStart ==
    /\ wpc = "start"
    /\ last_mtime' = IF file.kind = "missing" THEN last_mtime ELSE file.mtime
    /\ wpc' = "poll"
    /\ UNCHANGED <<current_config, manager_config, servers, detached,
                   reloading, rl, file, nwrites, nreq, rejected, refused,
                   repeat>>
    /\ UNCHANGED outsideReload

\* main() from load_config on: the pool starts its servers, the watcher is
\* started afterwards, and the file may be written at any time.
StartupNext ==
    \/ WatcherStart
    \/ WatchNext

\* _watch_loop polls every check_interval, the sleep of 0.1 s ends, and the
\* wait of stop() for the child ends with its exit or with the kill.
WatchFairness ==
    /\ WF_vars(WatcherStart)
    /\ WF_vars(WatchPoll)
    /\ WF_vars(\E order \in Orders : WatchLoad(order))
    /\ WF_vars(\E order \in Orders : ReloadStopDone(order))

(***************************************************************************)
(* Part 3.  CapabilityRegistry.resolve_namespace, run one step at a time,  *)
(* and the two access checks of the sandbox: NamespaceAccessControl on the *)
(* host and _NamespaceAccessControl in the generated driver.               *)
(***************************************************************************)

\* Bound of the model.
MaxExtends == 2         \* length of an extends list

NsNames == {"a", "b", "c"}
ServerNames == {"s1", "s2", "s3"}
ServersOf == [a |-> {"s1"}, b |-> {"s2"}, c |-> {"s3"}]
\* The order sorted() puts the server names in.
Rank == [s1 |-> 1, s2 |-> 2, s3 |-> 3]

\* The extends lists explored: up to MaxExtends names, none repeated.
ExtendsLists ==
    {e \in UNION {[1..k -> NsNames] : k \in 0..MaxExtends} :
        \A i, j \in DOMAIN e : e[i] = e[j] => i = j}

\* A namespace definition: a dict with servers and extends, a bare list of
\* servers, or none (the name is not in the table). "a" and "b" are dicts;
\* "c" is of any form.
NsDefs(n) ==
    {[form |-> "dict", servers |-> ServersOf[n], extends |-> e] :
        e \in ExtendsLists}
    \cup (IF n = "c"
          THEN {[form |-> "list", servers |-> ServersOf[n], extends |-> <<>>],
                [form |-> "absent", servers |-> {}, extends |-> <<>>]}
          ELSE {})
Graphs == {g \in [NsNames -> UNION {NsDefs(n) : n \in NsNames}] :
              \A n \in NsNames : g[n] \in NsDefs(n)}

\* _get_extends with the extends key left out of account.
get_extends_none(ns_def) == <<>>

\* _get_extends, lines 269-282.
get_extends(ns_def) ==
    IF ns_def.form = "dict" THEN ns_def.extends ELSE <<>>

\* _get_servers_from_ns, lines 284-297.
get_servers_from_ns(ns_def) ==
    IF ns_def.form = "absent" THEN {} ELSE ns_def.servers

\* sorted(list(resolved))
RECURSIVE sorted(_)
sorted(S) ==
    IF S = {} THEN <<>>
    ELSE LET m == CHOOSE x \in S : \A y \in S : Rank[x] <= Rank[y]
         IN <<m>> \o sorted(S \ {m})

Top == stack[Len(stack)]
Pop == SubSeq(stack, 1, Len(stack) - 1)
nsFrame == <<namespaces, target, hostOut, driverOut>>
walkFrame == <<nsFrame, nvisits>>

\* resolve_namespace, lines 299-319: the name must be in the table; the walk
\* starts with empty sets.
ResolveCall ==
    /\ npc = "call"
    /\ IF namespaces[target].form = "absent"
       THEN npc' = "raised" /\ UNCHANGED stack
       ELSE npc' = "run" /\ stack' = <<[ns |-> target, i |-> 0]>>
    /\ UNCHANGED <<visiting, resolved, result, walkFrame, outsideNs>>

\* _resolve_recursive, lines 331-333: the namespace is being visited.
ResolveSkipCircular ==
    /\ npc = "run" /\ stack # <<>>
    /\ Top.i = 0
    /\ Top.ns \in visiting
    /\ stack' = Pop
    /\ UNCHANGED <<visiting, resolved, result, npc, walkFrame, outsideNs>>

\* _resolve_recursive, lines 335-338: the namespace is not in the table.
ResolveSkipMissing ==
    /\ npc = "run" /\ stack # <<>>
    /\ Top.i = 0
    /\ Top.ns \notin visiting
    /\ namespaces[Top.ns].form = "absent"
    /\ stack' = Pop
    /\ UNCHANGED <<visiting, resolved, result, npc, walkFrame, outsideNs>>

\* _resolve_recursive, lines 340-343: the namespace is entered and its
\* servers collected.
ResolveEnter ==
    /\ npc = "run" /\ stack # <<>>
    /\ Top.i = 0
    /\ Top.ns \notin visiting
    /\ namespaces[Top.ns].form # "absent"
    /\ visiting' = visiting \cup {Top.ns}
    /\ resolved' = resolved \cup get_servers_from_ns(namespaces[Top.ns])
    /\ stack' = [stack EXCEPT ![Len(stack)].i = 1]
    /\ nvisits' = nvisits + 1
    /\ UNCHANGED <<result, npc, nsFrame, outsideNs>>

\* _resolve_recursive, lines 345-347: the next name of extends is resolved.
ResolveDescend ==
    /\ npc = "run" /\ stack # <<>>
    /\ Top.i >= 1
    /\ Top.i <= Len(get_extends(namespaces[Top.ns]))
    /\ stack' = Append([stack EXCEPT ![Len(stack)].i = @ + 1],
                       [ns |-> get_extends(namespaces[Top.ns])[Top.i],
                        i |-> 0])
    /\ UNCHANGED <<visiting, resolved, result, npc, walkFrame, outsideNs>>

\* _resolve_recursive, line 349: the loop is over, the namespace is left.
ResolveLeave ==
    /\ npc = "run" /\ stack # <<>>
    /\ Top.i > Len(get_extends(namespaces[Top.ns]))
    /\ visiting' = visiting \ {Top.ns}
    /\ stack' = Pop
    /\ UNCHANGED <<resolved, result, npc, walkFrame, outsideNs>>

\* resolve_namespace, line 319: the sorted list is returned.
ResolveReturn ==
    /\ npc = "run" /\ stack = <<>>
    /\ result' = sorted(resolved)
    /\ npc' = "done"
    /\ UNCHANGED <<stack, visiting, resolved, walkFrame, outsideNs>>

\* The outcome of an access check: for which server, whether access is
\* allowed ("yes", "no", or "raised" if the check raised), and the names the
\* message mentions.
NoOut == [server |-> "none", allowed |-> "none", names |-> {}]

\* "if not ns_config": None, an empty dict and an empty list are false.
Truthy(ns_def) ==
    CASE ns_def.form = "absent" -> FALSE
      [] ns_def.form = "list" -> ns_def.servers # {}
      [] OTHER -> TRUE

\* _resolve_allowed_servers (api_sandbox.py lines 104-131 and 615-631): the
\* calls of _resolve still to make, oldest first, with the visited and
\* resolved sets. ns_config.get raises on a list.
RECURSIVE resolve_allowed_servers(_, _, _, _)
resolve_allowed_servers(g, pending, visited, res) ==
    IF pending = <<>> THEN [raised |-> FALSE, servers |-> res]
    ELSE LET ns == Head(pending) IN
         IF ns \in visited
         THEN resolve_allowed_servers(g, Tail(pending), visited, res)
         ELSE IF ~Truthy(g[ns])
         THEN resolve_allowed_servers(g, Tail(pending),
                                      visited \cup {ns}, res)
         ELSE IF g[ns].form = "list"
         THEN [raised |-> TRUE, servers |-> res]
         ELSE resolve_allowed_servers(g, g[ns].extends \o Tail(pending),
                                      visited \cup {ns},
                                      res \cup g[ns].servers)

\* NamespaceAccessControl.can_access, api_sandbox.py lines 80-102.
can_access(g, namespace, target_server) ==
    IF ~Truthy(g[namespace])
    THEN [server |-> target_server, allowed |-> "no", names |-> {namespace}]
    ELSE LET r == resolve_allowed_servers(g, <<namespace>>, {}, {}) IN
         IF r.raised
         THEN [server |-> target_server, allowed |-> "raised", names |-> {}]
         ELSE IF target_server \in r.servers
         THEN [server |-> target_server, allowed |-> "yes", names |-> {}]
         ELSE [server |-> target_server, allowed |-> "no",
               names |-> {namespace, target_server}]

\* _wrap_code, lines 537-548: the table the driver is given. v.get raises on
\* a namespace in list form; every other one becomes a dict with both keys.
WrapRaises(g) == \E n \in NsNames : g[n].form = "list"

\* _NamespaceAccessControl.can_access in the driver, lines 601-613.
driver_can_access(g, namespace, target_server) ==
    IF WrapRaises(g)
    THEN [server |-> target_server, allowed |-> "raised", names |-> {}]
    ELSE IF g[namespace].form = "absent"
    THEN [server |-> target_server, allowed |-> "no", names |-> {namespace}]
    ELSE LET r == resolve_allowed_servers(g, <<namespace>>, {}, {}) IN
         IF target_server \in r.servers
         THEN [server |-> target_server, allowed |-> "yes", names |-> {}]
         ELSE [server |-> target_server, allowed |-> "no",
               names |-> {target_server}]

\* The host checks whether the namespace may use a server.
HostCheck(s) ==
    /\ npc \in {"done", "raised"}
    /\ hostOut = NoOut
    /\ hostOut' = can_access(namespaces, target, s)
    /\ UNCHANGED <<namespaces, target, stack, visiting, resolved, result, npc,
                   nvisits, driverOut, outsideNs>>

\* The driver makes the same check inside the sandbox.
DriverCheck ==
    /\ hostOut # NoOut
    /\ driverOut = NoOut
    /\ driverOut' = driver_can_access(namespaces, target, hostOut.server)
    /\ UNCHANGED <<namespaces, target, stack, visiting, resolved, result, npc,
                   nvisits, hostOut, outsideNs>>

NsNext ==
    \/ ResolveCall
    \/ ResolveSkipCircular
    \/ ResolveSkipMissing
    \/ ResolveEnter
    \/ ResolveDescend
    \/ ResolveLeave
    \/ ResolveReturn
    \/ \E s \in ServerNames : HostCheck(s)
    \/ DriverCheck

(***************************************************************************)
(* Part 4.  The default endpoint (CapabilityRegistry.get_default_servers)  *)
(* and the validation of group definitions (validate_groups of the config  *)
(* loader, validate_group of the registry).                                *)
(***************************************************************************)

\* Bound of the model.
MaxRefs == 2            \* length of a group's namespaces list

\* The tables explored here: those with at most one name in every extends.
EndpointTables == {g \in Graphs : \A n \in NsNames : Len(g[n].extends) <= 1}

\* _resolve_recursive as a function: the servers it adds to resolved when
\* called on ns with the given visiting set.
RECURSIVE resolve_recursive(_, _, _)
resolve_recursive(g, ns, seen) ==
    IF ns \in seen \/ g[ns].form = "absent" THEN {}
    ELSE get_servers_from_ns(g[ns])
            \cup UNION {resolve_recursive(g, get_extends(g[ns])[i],
                                          seen \cup {ns}) :
                        i \in DOMAIN get_extends(g[ns])}

\* get_default_servers, lines 452-476: the servers resolve_namespace gives
\* for every namespace of the table that is not isolated.
get_default_servers(g, iso) ==
    sorted(UNION {resolve_recursive(g, n, {}) :
                    n \in {m \in NsNames : g[m].form # "absent" /\ m \notin iso}})

\* A reference of a group: a namespace name, with or without the "!" prefix.
Refs == [name : NsNames, bang : BOOLEAN]
GroupLists == UNION {[1..k -> Refs] : k \in 0..MaxRefs}

\* ns_def.get("isolated", False) if isinstance(ns_def, dict) else False
is_isolated(g, iso, n) == g[n].form = "dict" /\ n \in iso

\* validate_groups, config_watcher.py lines 390-448, for a group whose
\* namespaces entry is a list of strings: ConfigError on the first reference
\* to an unknown namespace or to an isolated one without "!".
validate_groups(refs, g, iso) ==
    IF \E i \in DOMAIN refs :
          \/ g[refs[i].name].form = "absent"
          \/ is_isolated(g, iso, refs[i].name) /\ ~refs[i].bang
    THEN "rejected" ELSE "accepted"

\* validate_group, api_manifest.py lines 35-83.
validate_group(refs, g, iso) ==
    IF refs = <<>> THEN "invalid"
    ELSE IF \E i \in DOMAIN refs :
               \/ g[refs[i].name].form = "absent"
               \/ is_isolated(g, iso, refs[i].name) /\ ~refs[i].bang
    THEN "invalid" ELSE "valid"

NoDefault == [done |-> FALSE, servers |-> <<>>]
NoGroup == [refs |-> <<>>, config |-> "none", registry |-> "none"]

\* The default endpoint is asked for its servers.
GetDefaultServers ==
    /\ ~defaultOut.done
    /\ defaultOut' = [done |-> TRUE,
                      servers |-> get_default_servers(namespaces, isolated)]
    /\ UNCHANGED <<isolated, groupOut, outsideEp>>

\* A config with one group is validated.
ValidateGroups(refs) ==
    /\ groupOut.config = "none"
    /\ groupOut' = [refs |-> refs,
                    config |-> validate_groups(refs, namespaces, isolated),
                    registry |-> validate_group(refs, namespaces, isolated)]
    /\ UNCHANGED <<isolated, defaultOut, outsideEp>>

EpNext ==
    \/ GetDefaultServers
    \/ \E refs \in GroupLists : ValidateGroups(refs)

(***************************************************************************)
(* Part 5.  ServerProcess._read_message: the loop that reads the child's   *)
(* stdout line by line until a JSON value is parsed.                       *)
(***************************************************************************)

\* Bounds of the model.
MaxNoise == 3           \* lines the child writes before its reply
MaxPauses == 1          \* times readline() times out during one read

max_lines == 100

\* A line of the child's stdout, by what _read_message tests:
\*   "blank"    empty after strip()
\*   "log"      text that starts with neither "{" nor "["
\*   "chunk"    such text with "chunk" and "limit" in it
\*   "bracket"  text that starts with "{" or "[" and is not JSON, such as
\*              "[INFO] ready"
\*   "reply"    a JSON object on one line
\*   "head", "tail"  the two lines of a JSON object written on two lines
NoiseKinds == {"blank", "log", "chunk", "bracket"}
Replies == {<<"reply">>, <<"head", "tail">>}
Streams ==
    {n \o r : n \in UNION {[1..k -> NoiseKinds] : k \in 0..MaxNoise},
              r \in Replies}

\* Streams with about max_lines lines of one kind before the reply.
MaxLong == 101          \* lines the child writes before its reply
LongStreams ==
    {[i \in 1..k |-> kind] \o r : k \in (MaxLong - 3)..MaxLong,
                                  kind \in {"blank", "log"},
                                  r \in Replies}

\* json.loads(buffer) succeeds.
Parses(buf) == buf \in Replies

\* _read_message, lines 312-352: what the loop does with a line that
\* readline() returned.
read_line(line, buf) ==
    IF line = "blank" THEN [ret |-> "none", buffer |-> buf]
    ELSE IF line = "chunk" THEN [ret |-> "None", buffer |-> buf]
    ELSE IF line = "log" THEN [ret |-> "none", buffer |-> buf]
    ELSE IF Parses(Append(buf, line)) THEN [ret |-> "reply", buffer |-> buf]
    ELSE [ret |-> "none", buffer |-> Append(buf, line)]

\* _read_message, lines 292-307 and 354-364: readline() returns the next
\* line; once the child has written everything, EOF or a timeout ends the read
\* with what is in the buffer; the loop ends at max_lines.
ReadLine ==
    /\ rpc = "read"
    /\ line_count' = line_count + 1
    /\ pos' = IF pos < Len(lines) THEN pos + 1 ELSE pos
    /\ LET r == IF pos < Len(lines) THEN read_line(lines[pos + 1], buffer)
                ELSE [ret |-> "None", buffer |-> buffer]
           out == IF r.ret = "none" /\ line_count' >= max_lines
                  THEN "None" ELSE r.ret
       IN /\ buffer' = r.buffer
          /\ rout' = out
          /\ rpc' = IF out = "none" THEN "read" ELSE "returned"
    /\ UNCHANGED <<lines, npauses, outsideRead>>

\* _read_message, lines 297-301: no line arrives within a second; the loop
\* goes on if the buffer is empty and ends otherwise.
ReadPause ==
    /\ rpc = "read"
    /\ pos < Len(lines)
    /\ npauses < MaxPauses
    /\ npauses' = npauses + 1
    /\ IF buffer # <<>>
       THEN rpc' = "returned" /\ rout' = "None"
       ELSE UNCHANGED <<rpc, rout>>
    /\ UNCHANGED <<lines, pos, buffer, line_count, outsideRead>>

ReadNext ==
    \/ ReadLine
    \/ ReadPause

(***************************************************************************)
(* Part 6.  prefix_tool_name and parse_prefixed_tool_name. A string is a   *)
(* sequence of characters; "_" and one other character are enough to tell  *)
(* every case of split("__", 1) apart.                                     *)
(***************************************************************************)

\* Bound of the model.
MaxName == 3            \* length of a server name and of a tool name

Chars == {"a", "_"}
Strings == UNION {[1..k -> Chars] : k \in 0..MaxName}
Sep == <<"_", "_">>

\* The positions at which sep occurs in s.
Occurs(s, sep) ==
    {i \in 1..(Len(s) - Len(sep) + 1) : SubSeq(s, i, i + Len(sep) - 1) = sep}

\* prefix_tool_name, lines 13-25: f"{server_name}__{tool_name}"
prefix_tool_name(s, tl) == s \o Sep \o tl

\* str.split(sep, 1): the string cut at the first occurrence of sep.
split1(s, sep) ==
    IF Occurs(s, sep) = {} THEN <<s>>
    ELSE LET i == CHOOSE k \in Occurs(s, sep) : \A j \in Occurs(s, sep) : k <= j
         IN <<SubSeq(s, 1, i - 1), SubSeq(s, i + Len(sep), Len(s))>>

\* parse_prefixed_tool_name, lines 73-88.
parse_prefixed_tool_name(s) ==
    LET p == split1(s, Sep) IN
    IF Len(p) # 2 THEN [ok |-> "raised", server |-> <<>>, tool |-> <<>>]
    ELSE [ok |-> "yes", server |-> p[1], tool |-> p[2]]

NoParts == [ok |-> "none", server |-> <<>>, tool |-> <<>>]

\* A tool of a server is given its name in the catalogue.
PrefixName ==
    /\ prefixed_name = <<>>
    /\ prefixed_name' = prefix_tool_name(server_name, tool_name)
    /\ UNCHANGED <<server_name, tool_name, parts, outsideName>>

\* The name is taken apart again.
ParseName ==
    /\ prefixed_name # <<>>
    /\ parts = NoParts
    /\ parts' = parse_prefixed_tool_name(prefixed_name)
    /\ UNCHANGED <<server_name, tool_name, prefixed_name, outsideName>>

NameNext ==
    \/ PrefixName
    \/ ParseName

(***************************************************************************)
(* Part 7.  ServerManager as its callers see it: spawn_servers, the start  *)
(* tasks, get_all_tools, call_tool, stop and removal, over several         *)
(* children. A child is its record's process handle, tools list and start  *)
(* task; the handshake and the restart are those of part 1, taken here by  *)
(* their outcome.                                                          *)
(***************************************************************************)

\* Bound of the model.
MaxPoolCalls == 2       \* ServerManager.call_tool calls made

SpecSeq == <<"x", "y">>
PoolNames == {"x", "y"}
CallNames == PoolNames \cup {"w"}
ToolNames == {"t1", "t2"}

\* A record before spawn_servers has made it.
NoRecord == [in |-> FALSE, process |-> "None", tools |-> "none",
             task |-> "none", ending |-> "no"]

\* spawn_servers, lines 402-423: the record of an enabled spec and its
\* _start_server task.
NewRecord == [in |-> TRUE, process |-> "None", tools |-> "none",
              task |-> "spawn", ending |-> "no"]

\* get_all_tools that lists every record.
get_all_tools_every(p) ==
    [n \in {m \in PoolNames : p[m].in} |-> p[n].tools]

\* get_all_tools, lines 445-457.
get_all_tools(p) ==
    [n \in {m \in PoolNames : p[m].in /\ p[m].process = "running"} |->
        p[n].tools]

\* ServerManager.call_tool that falls back on some record.
lookup_any(p, sname) ==
    IF \E n \in PoolNames : p[n].in
    THEN CHOOSE n \in PoolNames : p[n].in
    ELSE "unknown"

\* ServerManager.call_tool, lines 463-466: the record the call is routed to.
lookup(p, sname) ==
    IF sname \in PoolNames /\ p[sname].in
    THEN sname ELSE "unknown"

\* A failed start that takes the other children down with it.
start_failed_all(p, n) ==
    [m \in PoolNames |->
        [p[m] EXCEPT !.process = "None", !.tools = "none", !.task = "none",
                     !.ending = "no"]]

\* start, lines 107-129, and stop, lines 151-154: the start of n has failed
\* and its record is left without process and tools.
start_failed(p, n) ==
    [p EXCEPT ![n].process = "None", ![n].tools = "none",
              ![n].task = "none", ![n].ending = "no"]

\* spawn_servers, lines 394-423: the loop comes to the next spec.
SpawnServersStep ==
    /\ next_spec <= Len(SpecSeq)
    /\ next_spec' = next_spec + 1
    /\ LET n == SpecSeq[next_spec] IN
       IF enabled[n]
       THEN /\ pool' = [pool EXCEPT ![n] = NewRecord]
            /\ fate' = [fate EXCEPT ![n] = "created"]
       ELSE UNCHANGED <<pool, fate>>
    /\ UNCHANGED <<enabled, called, request, outsidePool>>

\* start, line 70: the process of n is spawned.
StartSpawn(n) ==
    /\ pool[n].task = "spawn"
    /\ pool' = [pool EXCEPT ![n].process = "running", ![n].task = "handshake"]
    /\ fate' = [fate EXCEPT ![n] = "spawned"]
    /\ UNCHANGED <<enabled, next_spec, called, request, outsidePool>>

\* start, lines 126-129, and _start_server, lines 427-434: the spawn raises.
StartSpawnFails(n) ==
    /\ pool[n].task = "spawn"
    /\ pool' = start_failed(pool, n)
    /\ fate' = [fate EXCEPT ![n] = "failed"]
    /\ UNCHANGED <<enabled, next_spec, called, request, outsidePool>>

\* start, lines 80-118: the handshake succeeds and start() returns True;
\* _discover_tools, lines 249-263, has stored the tools of the reply
\* (found), or the empty list when the reply had none.
StartReady(n, found) ==
    /\ pool[n].task = "handshake"
    /\ pool[n].process = "running"
    /\ pool[n].ending = "no"
    /\ pool' = [pool EXCEPT ![n].tools = IF found THEN "listed" ELSE "none",
                            ![n].task = "none"]
    /\ fate' = [fate EXCEPT ![n] = IF found THEN "started" ELSE "bare"]
    /\ UNCHANGED <<enabled, next_spec, called, request, outsidePool>>

\* start, lines 107-125: the handshake fails, times out or raises, and
\* start() stops the child: it awaits the exit of a running process, and is
\* done at once otherwise.
StartHandshakeFails(n) ==
    /\ pool[n].task = "handshake"
    /\ pool[n].ending = "no"
    /\ IF pool[n].process = "running"
       THEN /\ pool' = [pool EXCEPT ![n].ending = "start"]
            /\ UNCHANGED fate
       ELSE /\ pool' = start_failed(pool, n)
            /\ fate' = [fate EXCEPT ![n] = "failed"]
    /\ UNCHANGED <<enabled, next_spec, called, request, outsidePool>>

\* The process of n exits.
PoolChildDies(n) ==
    /\ pool[n].process = "running"
    /\ pool' = [pool EXCEPT ![n].process = "exited"]
    /\ fate' = [fate EXCEPT ![n] = "died"]
    /\ UNCHANGED <<enabled, next_spec, called, request, outsidePool>>

\* stop, lines 131-154, called by stop_all ("stop") or by reload_config,
\* which then deletes the record ("remove").
StopChild(n, how) ==
    /\ pool[n].in
    /\ pool[n].ending = "no"
    /\ IF pool[n].process = "running"
       THEN /\ pool' = [pool EXCEPT ![n].ending = how]
            /\ UNCHANGED fate
       ELSE /\ pool' = [pool EXCEPT ![n].process = "None",
                                    ![n].tools = "none",
                                    ![n].in = (how = "stop")]
            /\ fate' = [fate EXCEPT ![n] = IF how = "stop" THEN "stopped"
                                           ELSE "removed"]
    /\ UNCHANGED <<enabled, next_spec, called, request, outsidePool>>

\* stop, lines 143-154: the awaited process has exited.
StopEnds(n) ==
    /\ pool[n].ending # "no"
    /\ pool[n].process = "exited"
    /\ pool' = IF pool[n].ending = "start" THEN start_failed(pool, n)
               ELSE [pool EXCEPT ![n].process = "None", ![n].tools = "none",
                                 ![n].ending = "no",
                                 ![n].in = (pool[n].ending = "stop")]
    /\ fate' = [fate EXCEPT ![n] = CASE pool[n].ending = "start" -> "failed"
                                     [] pool[n].ending = "stop" -> "stopped"
                                     [] OTHER -> "removed"]
    /\ UNCHANGED <<enabled, next_spec, called, request, outsidePool>>

\* ServerManager.call_tool, lines 459-476, up to its first suspension point:
\* an unknown name raises; a child that is not running is restarted first;
\* otherwise ServerProcess.call_tool writes the request.
PoolCall(sname, tname) ==
    /\ request.st # "restart"
    /\ request.no < MaxPoolCalls
    /\ LET n == lookup(pool, sname)
           r == [no |-> request.no + 1, server |-> sname,
                 tool |-> tname, child |-> n, st |-> "none"]
       IN IF n = "unknown"
          THEN /\ request' = [r EXCEPT !.st = "unknown"]
               /\ UNCHANGED called
          ELSE IF pool[n].process = "running"
          THEN /\ request' = [r EXCEPT !.st = "sent"]
               /\ called' = [called EXCEPT ![n] = @ \cup {tname}]
          ELSE /\ request' = [r EXCEPT !.st = "restart"]
               /\ UNCHANGED called
    /\ UNCHANGED <<enabled, next_spec, pool, fate, outsidePool>>

\* restart_if_needed has returned: after a successful start() the request is
\* written to the restarted child; otherwise call_tool raises.
RestartEnds(ok, found) ==
    /\ request.st = "restart"
    /\ LET n == request.child IN
       IF ok
       THEN /\ pool' = [pool EXCEPT ![n].process = "running",
                                    ![n].tools = IF found THEN "listed"
                                                 ELSE "none",
                                    ![n].task = "none", ![n].ending = "no"]
            /\ fate' = [fate EXCEPT ![n] = IF found THEN "started"
                                           ELSE "bare"]
            /\ called' = [called EXCEPT ![n] = @ \cup {request.tool}]
            /\ request' = [request EXCEPT !.st = "sent"]
       ELSE /\ pool' = start_failed(pool, n)
            /\ fate' = [fate EXCEPT ![n] = "failed"]
            /\ request' = [request EXCEPT !.st = "failed"]
            /\ UNCHANGED called
    /\ UNCHANGED <<enabled, next_spec, outsidePool>>

PoolNext ==
    \/ SpawnServersStep
    \/ \E n \in PoolNames : StartSpawn(n)
    \/ \E n \in PoolNames : StartSpawnFails(n)
    \/ \E n \in PoolNames, found \in BOOLEAN : StartReady(n, found)
    \/ \E n \in PoolNames : StartHandshakeFails(n)
    \/ \E n \in PoolNames : PoolChildDies(n)
    \/ \E n \in PoolNames, how \in {"stop", "remove"} : StopChild(n, how)
    \/ \E n \in PoolNames : StopEnds(n)
    \/ \E s \in CallNames, tl \in ToolNames : PoolCall(s, tl)
    \/ \E ok, found \in BOOLEAN : RestartEnds(ok, found)

(***************************************************************************)
(* Part 8.  SandboxExecutor.execute: validation, preparation of the driver *)
(* and of its environment, the uv subprocess, and the record returned. A   *)
(* code is what the validator looks at; a subprocess outcome is what       *)
(* subprocess.run does.                                                    *)
(***************************************************************************)

\* What validate_code looks at: whether the string encodes to UTF-8 (one
\* with a lone surrogate does not), its size against MAX_CODE_SIZE_BYTES,
\* whether ast.parse accepts it, and the first blocked import and blocked
\* builtin call in it.
Codes == [encodes : BOOLEAN, size : {"small", "big"}, parses : BOOLEAN,
          import : {"none", "os"}, builtin : {"none", "eval"}]

\* The namespace tables of the manifest: c in dict form, in list form, or
\* absent.
ExecTables == {g \in Graphs : \A n \in NsNames : g[n].extends = <<>>}

\* What subprocess.run does: it returns with an exit code and an output, it
\* raises TimeoutExpired, or it raises something else (no uv binary).
Outcomes ==
    [kind : {"exit"}, returncode : {0, 1},
     stdout : {"object", "array", "text"}, stderr : {"", "trace"}]
    \cup {[kind |-> k, returncode |-> 0, stdout |-> "text", stderr |-> ""] :
            k \in {"timeout", "oserror"}}

\* The elapsed milliseconds execute measures.
Elapsed == {0, 12}

NoReply == [status |-> "none"]
Raised == [status |-> "raised"]

\* The record execute returns.
Record(status, res, traceback, ms) ==
    [status |-> status, result |-> res, traceback |-> traceback,
     execution_time_ms |-> ms]

\* validate_code, lines 299-334.
validate_code(c) ==
    IF ~c.encodes THEN [raised |-> TRUE, valid |-> FALSE, error |-> <<>>]
    ELSE IF c.size = "big"
    THEN [raised |-> FALSE, valid |-> FALSE,
          error |-> <<"Code exceeds maximum size of ", "MAX_CODE_SIZE_BYTES",
                      " bytes">>]
    ELSE IF ~c.parses
    THEN [raised |-> FALSE, valid |-> FALSE, error |-> <<"Syntax error: ">>]
    ELSE IF c.import # "none"
    THEN [raised |-> FALSE, valid |-> FALSE,
          error |-> <<"Blocked import detected: ", c.import>>]
    ELSE IF c.builtin # "none"
    THEN [raised |-> FALSE, valid |-> FALSE,
          error |-> <<"Blocked builtin detected: ", c.builtin>>]
    ELSE [raised |-> FALSE, valid |-> TRUE, error |-> <<>>]

\* execute that launches the subprocess without validating.
execute_enter_unchecked(c, g) ==
    IF WrapRaises(g) THEN [reply |-> Raised, launch |-> FALSE]
    ELSE [reply |-> NoReply, launch |-> TRUE]

\* execute, lines 446-465: validation, then _wrap_code and _build_env, up to
\* the launch of the subprocess.
execute_enter(c, g) ==
    LET v == validate_code(c) IN
    IF v.raised THEN [reply |-> Raised, launch |-> FALSE]
    ELSE IF ~v.valid
    THEN [reply |-> Record("error", "null",
                           <<"Validation error: ">> \o v.error, 0),
          launch |-> FALSE]
    ELSE IF WrapRaises(g) THEN [reply |-> Raised, launch |-> FALSE]
    ELSE [reply |-> NoReply, launch |-> TRUE]

\* execute, lines 465-519, with _run_uv_subprocess, lines 753-767: the
\* record made of the subprocess outcome. json.loads accepts an object and an
\* array; result.get raises on the array and the last handler catches it.
execute_leave(o, ms) ==
    CASE o.kind = "timeout" ->
            Record("error", "null", <<"Execution timed out after ">>, ms)
      [] o.kind = "oserror" -> Record("error", "null", <<"str(e)">>, ms)
      [] o.kind = "exit" /\ o.returncode # 0 ->
            Record("error", "null",
                   IF o.stderr # "" THEN <<o.stderr>>
                   ELSE <<"Process exited with code ">>, ms)
      [] o.kind = "exit" /\ o.returncode = 0 /\ o.stdout = "object" ->
            Record("success", "result", <<"traceback">>, ms)
      [] o.kind = "exit" /\ o.returncode = 0 /\ o.stdout = "array" ->
            Record("error", "null", <<"str(e)">>, ms)
      [] OTHER ->
            Record("error", "null", <<"Failed to parse result: ">>, ms)

\* execute is called and runs up to subprocess.run, or returns or raises
\* before it.
ExecuteCall ==
    /\ xpc = "idle"
    /\ LET e == execute_enter(code, namespaces) IN
       /\ reply' = e.reply
       /\ launched' = IF e.launch THEN launched + 1 ELSE launched
       /\ xpc' = IF e.launch THEN "running" ELSE "done"
    /\ UNCHANGED <<code, outcome, outsideExec>>

\* subprocess.run is over and execute returns.
ExecuteReturn(o, ms) ==
    /\ xpc = "running"
    /\ reply' = execute_leave(o, ms)
    /\ xpc' = "done"
    /\ outcome' = o
    /\ UNCHANGED <<code, launched, outsideExec>>

ExecNext ==
    \/ ExecuteCall
    \/ \E o \in Outcomes, ms \in Elapsed : ExecuteReturn(o, ms)

(***************************************************************************)
(* Part 9.  The capability proxy: ProxyAPI and DynamicProxy on the host,   *)
(* _APIProxy and _DynamicProxy in the driver _wrap_code writes. The        *)
(* caller's namespace is target; the table is namespaces.                  *)
(***************************************************************************)

\* Bound of the model.
MaxApiCalls == 3        \* requests made of the proxy

Sides == {"host", "driver"}

NoApi == [side |-> "none", server |-> "none", raised |-> "none"]

\* ProxyAPI.server and call_tool, lines 192 and 215, _APIProxy.server and
\* call_tool, lines 654 and 660: the can_access call of the side.
api_check(side, g, namespace, name) ==
    IF side = "host" THEN can_access(g, namespace, name)
    ELSE driver_can_access(g, namespace, name)

\* What the request raises on the outcome of its check: PermissionError on a
\* denial, and what can_access itself has raised.
api_raises(o) ==
    CASE o.allowed = "yes" -> "no"
      [] o.allowed = "no" -> "PermissionError"
      [] OTHER -> "AttributeError"

\* The driver runs only when _wrap_code has written it.
Runs(side) == side = "host" \/ ~WrapRaises(namespaces)

\* api.server(name), lines 179-201 and 653-657.
ApiServer(side, name) ==
    /\ napi < MaxApiCalls
    /\ Runs(side)
    /\ napi' = napi + 1
    /\ LET o == api_check(side, namespaces, target, name) IN
       /\ apiOut' = [side |-> side, server |-> name, raised |-> api_raises(o)]
       /\ proxies' = IF o.allowed = "yes"
                     THEN proxies \cup {[side |-> side, server |-> name]}
                     ELSE proxies
    /\ UNCHANGED <<pending_calls, outsideApi>>

\* proxy.tool(**kwargs) on a proxy api.server has returned, lines 253-261 and
\* 640-644.
ProxyTool(side, name) ==
    /\ napi < MaxApiCalls
    /\ [side |-> side, server |-> name] \in proxies
    /\ napi' = napi + 1
    /\ pending_calls' = pending_calls \cup {[side |-> side, server |-> name]}
    /\ apiOut' = [side |-> side, server |-> name, raised |-> "no"]
    /\ UNCHANGED <<proxies, outsideApi>>

\* api.call_tool(server, tool, args), lines 203-220 and 659-663.
ApiCallTool(side, name) ==
    /\ napi < MaxApiCalls
    /\ Runs(side)
    /\ napi' = napi + 1
    /\ LET o == api_check(side, namespaces, target, name) IN
       /\ apiOut' = [side |-> side, server |-> name, raised |-> api_raises(o)]
       /\ pending_calls' =
             IF o.allowed = "yes"
             THEN pending_calls \cup {[side |-> side, server |-> name]}
             ELSE pending_calls
    /\ UNCHANGED <<proxies, outsideApi>>

ApiNext ==
    \/ \E side \in Sides, s \in ServerNames : ApiServer(side, s)
    \/ \E side \in Sides, s \in ServerNames : ProxyTool(side, s)
    \/ \E side \in Sides, s \in ServerNames : ApiCallTool(side, s)

(***************************************************************************)
(* Part 10.  validate_code on the text of a code. A text is a sequence of  *)
(* tokens: "q" a double quote, "t" three of them, "b" an escaped backslash *)
(* (two backslashes), "h" a hash sign, "n" a line break, "I" the statement *)
(* import os, "C" the call eval(), "A" the call obj.eval(). A statement    *)
(* token stands for the statement with the separators it needs, so that a  *)
(* text is a module exactly when its string literals are terminated and no *)
(* backslash stands outside of one.                                        *)
(***************************************************************************)

\* Bounds of the model.
MaxBlock == 8       \* tokens of a text with triple-quoted strings
MaxLine == 6        \* tokens of a one-line text with plain strings

SeqsUpTo(A, k) == UNION {[1..j -> A] : j \in 0..k}

Texts ==
    [size : {"small", "big"},
     chars : SeqsUpTo({"t", "n", "h", "I"}, MaxBlock)
             \cup SeqsUpTo({"q", "b", "h", "C", "A"}, MaxLine)]

\* The characters of a text: "t" is three quotes.
RECURSIVE Expand(_)
Expand(s) ==
    IF s = <<>> THEN <<>>
    ELSE (IF Head(s) = "t" THEN <<"q", "q", "q">> ELSE <<Head(s)>>)
         \o Expand(Tail(s))

\* line[i : i + 3] is a triple quote.
Triple(s, i) ==
    i + 2 <= Len(s) /\ s[i] = "q" /\ s[i + 1] = "q" /\ s[i + 2] = "q"

\* _strip_comments, lines 336-387: line by line, with in_string reset at
\* every line; mode is "no" outside a string, "1" and "3" inside a string
\* opened by one and by three quotes, "cut" after the break at a hash sign.
RECURSIVE strip_from(_, _, _, _)
strip_from(s, i, mode, out) ==
    IF i > Len(s) THEN out
    ELSE IF s[i] = "n" THEN strip_from(s, i + 1, "no", Append(out, "n"))
    ELSE IF mode = "cut" THEN strip_from(s, i + 1, "cut", out)
    ELSE IF mode = "no"
    THEN IF Triple(s, i)
         THEN strip_from(s, i + 3, "3", out \o <<"q", "q", "q">>)
         ELSE IF s[i] = "q" THEN strip_from(s, i + 1, "1", Append(out, "q"))
         ELSE IF s[i] = "h" THEN strip_from(s, i + 1, "cut", out)
         ELSE strip_from(s, i + 1, "no", Append(out, s[i]))
    ELSE IF mode = "3"
    THEN IF Triple(s, i)
         THEN strip_from(s, i + 3, "no", out \o <<"q", "q", "q">>)
         ELSE strip_from(s, i + 1, "3", Append(out, s[i]))
    ELSE IF s[i] = "q" /\ (i = 1 \/ s[i - 1] \notin {"b"})
         THEN strip_from(s, i + 1, "no", Append(out, "q"))
         ELSE strip_from(s, i + 1, "1", Append(out, s[i]))

strip_comments(s) == strip_from(s, 1, "no", <<>>)

\* ast.parse, line 321, and the walks of _check_blocked_imports and
\* _check_blocked_builtins, lines 389-428, on a sequence of characters:
\* whether it is a module, and whether an import of os and a call of eval
\* by its bare name are statements of it. mode is "code", "str" (a string
\* opened by one quote), "tri" (by three) or "com" (a comment).
RECURSIVE parse_from(_, _, _, _)
parse_from(s, i, mode, found) ==
    IF i > Len(s)
    THEN [ok |-> mode \in {"code", "com"}, found |-> found]
    ELSE IF mode = "code"
    THEN IF Triple(s, i) THEN parse_from(s, i + 3, "tri", found)
         ELSE IF s[i] = "q" THEN parse_from(s, i + 1, "str", found)
         ELSE IF s[i] = "h" THEN parse_from(s, i + 1, "com", found)
         ELSE IF s[i] = "b" THEN [ok |-> FALSE, found |-> found]
         ELSE parse_from(s, i + 1, "code", found \cup ({s[i]} \ {"n"}))
    ELSE IF mode = "com"
    THEN parse_from(s, i + 1, IF s[i] = "n" THEN "code" ELSE "com", found)
    ELSE IF mode = "tri"
    THEN IF Triple(s, i) THEN parse_from(s, i + 3, "code", found)
         ELSE parse_from(s, i + 1, "tri", found)
    ELSE IF s[i] = "n" THEN [ok |-> FALSE, found |-> found]
         ELSE parse_from(s, i + 1, IF s[i] = "q" THEN "code" ELSE "str",
                         found)

ast_parse(s) == parse_from(s, 1, "code", {})

\* validate_code, lines 314-321: what the checks of validate_code are made
\* on: the size of the code as given, and the parse of the code after
\* _strip_comments. (NFKC changes none of the characters of a text.)
Seen(c) ==
    LET tree == ast_parse(strip_comments(Expand(c.chars))) IN
    [encodes |-> TRUE, size |-> c.size, parses |-> tree.ok,
     import |-> IF "I" \in tree.found THEN "os" ELSE "none",
     builtin |-> IF "C" \in tree.found THEN "eval" ELSE "none"]

NoVerdict == [raised |-> FALSE, valid |-> FALSE, error |-> <<"none">>]

\* validate_code is called on the text.
ValidateCode ==
    /\ verdict = NoVerdict
    /\ verdict' = validate_code(Seen(text))
    /\ UNCHANGED <<text, outsideValid>>

ValidNext == ValidateCode

(***************************************************************************)
(* Part 11.  ManifestQuery.search over a built manifest. For a fixed query *)
(* _fuzzy_match is a fixed test of every string, so a server is given by   *)
(* what of it passes the test: its name, its category, its tool.           *)
(***************************************************************************)

\* A server of the manifest: name says whether the server name matches the
\* query; cat and tool say whether the server has a category and a tool, and
\* whether it matches.
Profiles ==
    {[built |-> FALSE, name |-> FALSE, cat |-> "none", tool |-> "none"],
     [built |-> TRUE, name |-> TRUE, cat |-> "miss", tool |-> "miss"],
     [built |-> TRUE, name |-> FALSE, cat |-> "hit", tool |-> "miss"],
     [built |-> TRUE, name |-> FALSE, cat |-> "none", tool |-> "hit"],
     [built |-> TRUE, name |-> FALSE, cat |-> "miss", tool |-> "miss"]}

\* The namespace tables searched under: a with any extends list of one
\* name, c in its three forms.
SearchTables ==
    {g \in EndpointTables : g["b"].extends = <<>> /\ g["c"].extends = <<>>}

Depths == 0..3

NoSearch == [raised |-> FALSE, results |-> {"none"}, servers |-> {},
             categories |-> {}, tools |-> {}]

\* _fuzzy_match(query, string) >= min_similarity: the empty query is in
\* every string, lines 686-687.
Hit(q, flag) == q = "empty" \/ flag

\* get_servers that leaves the namespace out of account.
get_servers_all(g, man, namespace) ==
    [raised |-> FALSE, servers |-> {s \in ServerNames : man[s].built}]

\* get_servers, lines 171-189, with resolve_namespace, lines 299-319.
get_servers(g, man, namespace) ==
    IF namespace = "None"
    THEN [raised |-> FALSE, servers |-> {s \in ServerNames : man[s].built}]
    ELSE IF g[namespace].form = "absent"
    THEN [raised |-> TRUE, servers |-> {}]
    ELSE [raised |-> FALSE,
          servers |-> {s \in resolve_recursive(g, namespace, {}) :
                          man[s].built}]

\* get_tools, lines 191-210: whether the tools of the server are handed out.
get_tools(g, man, server, namespace) ==
    \/ namespace = "None"
    \/ server \in resolve_recursive(g, namespace, {})

\* search, lines 582-668.
search(g, man, q, namespace, max_depth) ==
    LET got == get_servers(g, man, namespace)
        show_all == max_depth >= 1 /\ q = "empty"
        name(s) == show_all \/ Hit(q, man[s].name)
        walked == {s \in got.servers : name(s) \/ max_depth >= 1}
        cats == {s \in walked : /\ max_depth >= 1
                                /\ man[s].cat # "none"
                                /\ Hit(q, man[s].cat = "hit")}
        tls == {s \in walked : /\ max_depth >= 2
                               /\ get_tools(g, man, s, namespace)
                               /\ man[s].tool # "none"
                               /\ Hit(q, man[s].tool = "hit")}
    IN IF got.raised THEN [NoSearch EXCEPT !.raised = TRUE, !.results = {}]
       ELSE [raised |-> FALSE,
             results |-> {s \in walked :
                            name(s) \/ s \in cats \/ s \in tls \/ show_all},
             servers |-> {s \in walked : name(s)},
             categories |-> cats,
             tools |-> tls]

\* search is called with a depth.
Search(d) ==
    /\ answers[d] = NoSearch
    /\ answers' = [answers EXCEPT
                     ![d] = search(namespaces, manifest, query, search_ns, d)]
    /\ UNCHANGED <<manifest, query, search_ns, outsideSearch>>

SearchNext == \E d \in Depths : Search(d)

(***************************************************************************)
(* Part 12.  CapabilityRegistry.build and invalidate_cache. A tool entry   *)
(* is given by what build tests of it.                                     *)
(***************************************************************************)

\* Bound of the model.
MaxTools == 2       \* tool entries of a server

\* A tool entry: "text" is not a dict, "noname" a dict without the key
\* name, "plain" a dict named t, "prefixed" a dict named a__b, "null" a dict
\* whose name is None.
EntryKinds == {"text", "noname", "plain", "prefixed", "null"}

BuildServers == {"s1", "s2"}

\* servers_tools: a server is left out or comes with a list of entries.
ToolTables ==
    [BuildServers -> {<<"absent">>} \cup SeqsUpTo(EntryKinds, MaxTools)]

Empty == [raised |-> FALSE, servers |-> <<>>, tool_count |-> 0]

\* build, lines 122-124: the entries that are kept.
Valid(e) == e \notin {"text", "noname"}

\* _extract_category, lines 165-169: "__" in name raises on a name that is
\* not a string.
extract_category_raises(e) == e = "null"

RECURSIVE tool_list(_)
tool_list(entries) ==
    IF entries = <<>> THEN <<>>
    ELSE (IF Valid(Head(entries)) THEN <<Head(entries)>> ELSE <<>>)
         \o tool_list(Tail(entries))

RECURSIVE Sum(_, _)
Sum(f, S) ==
    IF S = {} THEN 0
    ELSE LET s == CHOOSE x \in S : TRUE IN f[s] + Sum(f, S \ {s})

\* build, lines 100-154.
build(tbl) ==
    LET given == {s \in BuildServers : tbl[s] # <<"absent">>}
        count == [s \in given |-> Len(tool_list(tbl[s]))]
    IN IF \E s \in given : \E i \in DOMAIN tbl[s] :
              Valid(tbl[s][i]) /\ extract_category_raises(tbl[s][i])
       THEN [raised |-> TRUE, servers |-> <<>>, tool_count |-> 0]
       ELSE [raised |-> FALSE, servers |-> count,
             tool_count |-> Sum(count, given)]

\* registry.build(all_tools): when it raises, _manifest is left as it was.
Build ==
    /\ bpc \in {0, 2}
    /\ bpc' = bpc + 1
    /\ LET b == build(all_tools) IN
       /\ built' = IF b.raised THEN built ELSE b
       /\ first' = IF bpc = 0 THEN b ELSE first
    /\ UNCHANGED <<all_tools, outsideBuild>>

\* invalidate_cache, lines 410-418.
InvalidateCache ==
    /\ bpc = 1
    /\ bpc' = 2
    /\ built' = Empty
    /\ UNCHANGED <<all_tools, first, outsideBuild>>

BuildNext == Build \/ InvalidateCache

(***************************************************************************)
(* Part 13.  EventHookManager.trigger. A callback is given by whether it  *)
(* raises and whether it has a __name__ (a function has one; a             *)
(* functools.partial and an object with __call__ have none).               *)
(***************************************************************************)

\* Bounds of the model.
MaxHooks == 3       \* callbacks registered for an event type
MaxEvents == 102    \* events recorded

\* EventHookManager._max_history, line 723.
max_history == 100

EventTypes == {"manual", "server_health"}

Callbacks == [raises : BOOLEAN, named : BOOLEAN]

\* The callbacks registered: any list for manual, one function for
\* server_health.
HookTables ==
    {[e \in EventTypes |->
        IF e = "manual" THEN cbs
        ELSE <<[raises |-> FALSE, named |-> TRUE]>>] :
     cbs \in SeqsUpTo(Callbacks, MaxHooks)}

\* trigger, lines 766-780: the loop over the callbacks from the i-th on.
\* callback.__name__ is read in the try block after a call that returned
\* and in the except block; on a callback without it the except block
\* raises and trigger is left.
RECURSIVE run_hooks(_, _, _, _)
run_hooks(cbs, i, done, results) ==
    IF i > Len(cbs) THEN [raised |-> FALSE, ran |-> done, results |-> results]
    ELSE IF ~cbs[i].named
    THEN [raised |-> TRUE, ran |-> Append(done, i), results |-> results]
    ELSE run_hooks(cbs, i + 1, Append(done, i),
                   Append(results, IF cbs[i].raises THEN "error"
                                   ELSE "success"))

\* A history that is never trimmed.
remember_all(history, record) == Append(history, record)

\* trigger, lines 785-787: the record is appended and the oldest one is
\* dropped when the history has grown beyond _max_history.
remember(history, record) ==
    IF Len(history) + 1 > max_history THEN Tail(Append(history, record))
    ELSE Append(history, record)

\* trigger(event_type), lines 743-797.
Trigger(e) ==
    /\ nrecorded < MaxEvents
    /\ LET r == run_hooks(hooks[e], 1, <<>>, <<>>) IN
       /\ ran' = r.ran
       /\ IF r.raised
          THEN /\ trigger_out' = "raised"
               /\ UNCHANGED <<last_event, event_history, nrecorded, rebuilt>>
          ELSE /\ trigger_out' = "returned"
               /\ rebuilt' = rebuilt + 1
               /\ last_event' = r.results
               /\ nrecorded' = nrecorded + 1
               /\ event_history' = remember(event_history, nrecorded + 1)
    /\ UNCHANGED <<hooks, outsideEvent>>

EventNext == \E e \in EventTypes : Trigger(e)

(***************************************************************************)
(* Part 14.  A configuration change and the tables of the registry.        *)
(* init_v2_components stores the namespaces of the configuration in the    *)
(* registry; on_config_change fires the config_change event; the config    *)
(* watcher calls HotReloadServerManager.reload_config.                     *)
(***************************************************************************)

\* The namespace tables of a configuration: namespace a is defined, so that
\* _namespaces is never empty and resolve_namespace does not read
\* mcproxy.json (line 311).
ConfigTables == {g \in SearchTables : g["a"].form # "absent"}

NoLookup == [raised |-> FALSE, servers |-> {"none"}]

\* resolve_namespace, lines 299-319.
resolve_namespace(g, namespace) ==
    IF g[namespace].form = "absent" THEN [raised |-> TRUE, servers |-> {}]
    ELSE [raised |-> FALSE, servers |-> resolve_recursive(g, namespace, {})]

\* on_config_change(new_config), server.py lines 620-628: the event is
\* fired, and _rebuild_manifest (lines 808-810) calls invalidate_cache,
\* which empties _manifest and leaves _namespaces and _groups alone.
OnConfigChange(new) ==
    /\ new # config_namespaces
    /\ config_namespaces' = new
    /\ reg_manifest' = FALSE
    /\ UNCHANGED <<reg_namespaces, answer, outsideConfig>>

\* reload_config(new_config), config_reloader.py lines 156-238: the
\* children are stopped and started (part 2) and the configuration is
\* stored in the reloader and the manager, lines 231-233.
HotReload(new) ==
    /\ new # config_namespaces
    /\ config_namespaces' = new
    /\ UNCHANGED <<reg_namespaces, reg_manifest, answer, outsideConfig>>

\* A caller resolves a namespace.
ResolveNamespace(namespace) ==
    /\ answer' = resolve_namespace(reg_namespaces, namespace)
    /\ UNCHANGED <<reg_namespaces, reg_manifest, config_namespaces,
                   outsideConfig>>

ConfigNext ==
    \/ \E new \in ConfigTables : OnConfigChange(new)
    \/ \E new \in ConfigTables : HotReload(new)
    \/ \E namespace \in NsNames : ResolveNamespace(namespace)

(***************************************************************************)
(* Part 15.  handle_execute on the event loop. handle_execute is a         *)
(* coroutine; it calls SandboxExecutor.execute, a plain function, which    *)
(* calls subprocess.run with a timeout. The other tasks of the gateway     *)
(* run on the same loop, and a task makes a step when the loop's thread    *)
(* takes it from the ready queue.                                          *)
(***************************************************************************)

\* Bounds of the model.
MaxSteps == 3       \* steps an other task makes
MaxExecs == 2       \* execute calls made
MaxTimeout == 2     \* the timeout of an execute call, in seconds

\* The other tasks: a tool call to a child, the heartbeat of an SSE
\* stream, the config watcher.
OtherTasks == {"call", "heartbeat", "watcher"}

\* handle_execute, server.py lines 460-511, down to
\* _run_uv_subprocess, api_sandbox.py lines 753-759: subprocess.run starts
\* the subprocess and waits for it in the calling thread.
ExecuteEnter(timeout) ==
    /\ loop_thread = "loop"
    /\ nexec < MaxExecs
    /\ nexec' = nexec + 1
    /\ loop_thread' = "execute"
    /\ subprocess' = "running"
    /\ deadline' = timeout
    /\ waited' = 0
    /\ UNCHANGED <<progress, outsideLoop>>

\* A second passes while the subprocess runs.
SecondPasses ==
    /\ subprocess = "running"
    /\ waited < deadline
    /\ waited' = waited + 1
    /\ UNCHANGED <<loop_thread, subprocess, deadline, progress, nexec,
                   outsideLoop>>

\* subprocess.run returns, or raises TimeoutExpired at the deadline;
\* execute returns its record and handle_execute its answer, lines 512-515.
ExecuteLeave(timed_out) ==
    /\ subprocess = "running"
    /\ timed_out <=> waited = deadline
    /\ subprocess' = "none"
    /\ loop_thread' = "loop"
    /\ UNCHANGED <<deadline, waited, progress, nexec, outsideLoop>>

\* The loop's thread runs another task up to its next await.
TaskStep(t) ==
    /\ loop_thread = "loop"
    /\ progress[t] < MaxSteps
    /\ progress' = [progress EXCEPT ![t] = @ + 1]
    /\ UNCHANGED <<loop_thread, subprocess, deadline, waited, nexec,
                   outsideLoop>>

LoopNext ==
    \/ \E timeout \in 1..MaxTimeout : ExecuteEnter(timeout)
    \/ SecondPasses
    \/ \E timed_out \in BOOLEAN : ExecuteLeave(timed_out)
    \/ \E t \in OtherTasks : TaskStep(t)

(***************************************************************************)
(* Part 16.  The names in the pool after spawn_servers and after a         *)
(* reload_config that has run to its end, for a configuration given as     *)
(* the list of server entries the file holds.                              *)
(***************************************************************************)

\* Bounds of the model.
MaxEntries == 3     \* entries of a server list
MaxApplies == 2     \* reload_config calls made

\* validate_server, config_watcher.py lines 258-289, accepts an entry with
\* a name and a command; the names of a list are not compared.
ListEntries == [name : {"A", "B"}, enabled : {"omitted", "false"}]
ListConfigs == SeqsUpTo(ListEntries, MaxEntries)

\* {s["name"]: s for s in config.get("servers", [])}, config_reloader.py
\* lines 173-174: for a name the last entry of the list.
as_dict(cfg) ==
    [n \in {cfg[i].name : i \in DOMAIN cfg} |->
        LET i == CHOOSE k \in DOMAIN cfg :
                    cfg[k].name = n /\ \A j \in DOMAIN cfg :
                                          cfg[j].name = n => j <= k
        IN [args |-> "v1", enabled |-> cfg[i].enabled]]

\* spawn_servers, server_manager.py lines 389-423: a record for every
\* enabled entry of the list.
spawn_names(cfg) ==
    {cfg[i].name : i \in {k \in DOMAIN cfg : cfg[k].enabled # "false"}}

\* reload_config, config_reloader.py lines 173-229, run to its end: the
\* keys of manager.servers afterwards.
reload_names(names, old, new) ==
    LET o == as_dict(old)
        n == as_dict(new)
        gone == to_remove(o, n) \cup to_update(o, n)
        added == {x \in to_add(o, n) \cup to_update(o, n) : Enabled(n[x])}
    IN (names \ gone) \cup added

\* spawn_servers is run on the configuration the manager was made with.
SpawnAll ==
    /\ ppc = "new"
    /\ pool_names' = spawn_names(list_config)
    /\ ppc' = "spawned"
    /\ UNCHANGED <<list_config, napply, outsideNames>>

\* reload_config(new) runs to its end.
Apply(new) ==
    /\ ppc # "new"
    /\ napply < MaxApplies
    /\ napply' = napply + 1
    /\ pool_names' = reload_names(pool_names, list_config, new)
    /\ list_config' = new
    /\ ppc' = "applied"
    /\ UNCHANGED outsideNames

NamesNext ==
    \/ SpawnAll
    \/ \E new \in ListConfigs : Apply(new)

(***************************************************************************)
(* Part 17.  Server health: the on_server_health handler of server.py and *)
(* the server_health branch of EventHookManager._rebuild_manifest. An     *)
(* event payload is a dict, given as a function from its keys.             *)
(***************************************************************************)

\* Bounds of the model.
MaxNotes == 3       \* notifications delivered

HealthNames == {"s1", "s2", "s3"}

\* CapabilityRegistry.build, line 142: every server of the manifest starts
\* with the status "active".
Manifests == [HealthNames -> {"absent", "active"}]

\* The statuses a caller of trigger may pass.
Statuses == {"healthy", "unhealthy", "degraded", ""}

\* dict.get(key): None for a key the dict does not have.
dict_get(data, key) == IF key \in DOMAIN data THEN data[key] ELSE "None"

\* The truth value of a str or None.
truthy(v) == v # "None" /\ v # ""

\* _rebuild_manifest, lines 812-822, the server_health branch.
rebuild_server_health(mf, data) ==
    LET sname == dict_get(data, "server")
        status == dict_get(data, "status")
    IN
    IF truthy(sname) /\ truthy(status)
       /\ mf[sname] # "absent"
    THEN [mf EXCEPT ![sname] = status]
    ELSE mf

\* on_server_health(server_name, healthy), server.py lines 631-643: the
\* word for the state is logged, and the event is triggered with the keys
\* server and healthy.
OnServerHealth(sname, healthy) ==
    /\ nhealth < MaxNotes
    /\ nhealth' = nhealth + 1
    /\ LET status == IF healthy THEN "healthy" ELSE "unhealthy"
           data == [server |-> sname, healthy |-> healthy]
       IN
       /\ manifest_status' = rebuild_server_health(manifest_status, data)
       /\ last_health' = [via |-> "handler", server |-> sname,
                          status |-> status]
    /\ UNCHANGED outsideHealth

\* trigger("server_health", {"server": ..., "status": ...}) called directly.
TriggerServerHealth(sname, status) ==
    /\ nhealth < MaxNotes
    /\ nhealth' = nhealth + 1
    /\ LET data == [server |-> sname, status |-> status] IN
       manifest_status' = rebuild_server_health(manifest_status, data)
    /\ last_health' = [via |-> "trigger", server |-> sname,
                       status |-> status]
    /\ UNCHANGED outsideHealth

HealthNext ==
    \/ \E n \in HealthNames, healthy \in BOOLEAN : OnServerHealth(n, healthy)
    \/ \E n \in HealthNames, st \in Statuses : TriggerServerHealth(n, st)

(***************************************************************************)
(* Part 18.  The tool calls of sandboxed code: execute, the _ToolExecutor  *)
(* of the driver it writes, and ProxyAPI.call_tool of the host, which      *)
(* hands the call to the gateway's tool executor. What the calls have      *)
(* done is a record of the pending list and the two counters.              *)
(***************************************************************************)

\* Bounds of the model.
MaxDriverCalls == 3     \* api requests made by the sandboxed code
MaxHostCalls == 2       \* call_tool requests made of the host proxy

\* ProxyAPI.call_tool on the host, line 220: the gateway's tool executor is
\* invoked, which sends a tools/call request to the child.
host_executor(done, sname) ==
    [done EXCEPT !.invoked = @ + 1, !.requests = @ + 1]

\* A _ToolExecutor that hands the call to the gateway's tool executor.
driver_executor_forwards(done, sname) == host_executor(done, sname)

\* _ToolExecutor.__call__ in the driver, lines 558-560: the call is
\* appended to _pending and a marker returned.
driver_executor(done, sname) ==
    [done EXCEPT !.pending = Append(@, sname)]

Done == [pending |-> driver_pending, invoked |-> executor_calls,
         requests |-> child_requests]

SetDone(d) ==
    /\ driver_pending' = d.pending
    /\ executor_calls' = d.invoked
    /\ child_requests' = d.requests

\* execute, lines 446-465: validation, _wrap_code and _build_env, up to
\* subprocess.run.
SandboxExecute ==
    /\ sb_pc = "idle"
    /\ sb_pc' = IF execute_enter(code, namespaces).launch THEN "running"
                ELSE "done"
    /\ UNCHANGED <<driver_pending, executor_calls, child_requests, ndriver,
                   nhost, outsideSandbox>>

\* api.call_tool(server, tool, args) or api.server(server).tool(**kwargs) in
\* the sandboxed code, lines 640-663: PermissionError on a denial, the
\* driver's _ToolExecutor otherwise.
DriverCallTool(sname) ==
    /\ sb_pc = "running"
    /\ ndriver < MaxDriverCalls
    /\ ndriver' = ndriver + 1
    /\ SetDone(IF driver_can_access(namespaces, target, sname).allowed = "yes"
               THEN driver_executor(Done, sname) ELSE Done)
    /\ UNCHANGED <<sb_pc, nhost, outsideSandbox>>

\* execute, lines 475-484: subprocess.run is over; result and traceback of
\* the driver's output are returned and its pending_calls are not read.
SandboxReturn ==
    /\ sb_pc = "running"
    /\ sb_pc' = "done"
    /\ UNCHANGED <<driver_pending, executor_calls, child_requests, ndriver,
                   nhost, outsideSandbox>>

\* ProxyAPI.call_tool(server, tool, args) on the host, lines 202-220, by
\* code of the gateway's process; execute is synchronous, so not while it
\* runs.
HostCallTool(sname) ==
    /\ sb_pc # "running"
    /\ nhost < MaxHostCalls
    /\ nhost' = nhost + 1
    /\ SetDone(IF can_access(namespaces, target, sname).allowed = "yes"
               THEN host_executor(Done, sname) ELSE Done)
    /\ UNCHANGED <<sb_pc, ndriver, outsideSandbox>>

SandboxNext ==
    \/ SandboxExecute
    \/ \E s \in ServerNames : DriverCallTool(s)
    \/ SandboxReturn
    \/ \E s \in ServerNames : HostCallTool(s)

(***************************************************************************)
(* Part 19.  The forms of extends: validate_namespace_extends of           *)
(* config_watcher.py and the resolution of CapabilityRegistry. A namespace *)
(* name is a string, given as the sequence of its characters; a namespace  *)
(* is a dict with servers and, possibly, extends.                          *)
(***************************************************************************)

\* Bounds of the model.
MaxParents == 2     \* names in an extends list
MaxResolves == 2    \* resolve_namespace calls made

\* The namespace names "a", "b" and "ab", and their servers.
ExtNames == {<<"a">>, <<"b">>, <<"a", "b">>}
ExtServers(n) ==
    IF n = <<"a">> THEN {"s1"} ELSE IF n = <<"b">> THEN {"s2"} ELSE {"s3"}

\* The values of extends: the key left out, null, a string, a list of
\* strings.
ExtValues ==
    {[form |-> f, names |-> <<>>] : f \in {"omitted", "null"}}
    \cup {[form |-> "str", names |-> <<n>>] : n \in ExtNames}
    \cup {[form |-> "list", names |-> l] : l \in SeqsUpTo(ExtNames, MaxParents)}

ExtDefs == [present : {TRUE}, extends : ExtValues]
              \cup {[present |-> FALSE,
                     extends |-> [form |-> "omitted", names |-> <<>>]]}

\* validate_namespace_extends, lines 356-387: null is accepted, a string is
\* read as the list of that one name, and every name must be a namespace of
\* the configuration.
validate_namespace_extends(g, extends) ==
    \/ extends.form \in {"omitted", "null"}
    \/ \A i \in DOMAIN extends.names : g[extends.names[i]].present

\* validate_namespaces, lines 306-325, over namespaces in dict form.
validate_namespaces(g) ==
    \A n \in ExtNames :
        g[n].present => validate_namespace_extends(g, g[n].extends)

AcceptedTables == {g \in [ExtNames -> ExtDefs] : validate_namespaces(g)}

\* The namespaces the validation takes a value of extends to name.
named_parents(extends) == {extends.names[i] : i \in DOMAIN extends.names}

\* for ext in extends, line 346, on what _get_extends returns (lines
\* 269-282, ns_def.get("extends", [])): the elements of a list, the
\* characters of a string, TypeError on None.
iterate(extends) ==
    CASE extends.form = "null" -> [raised |-> TRUE, items |-> <<>>]
      [] extends.form = "str" ->
            [raised |-> FALSE,
             items |-> [i \in DOMAIN extends.names[1] |->
                          <<extends.names[1][i]>>]]
      [] OTHER -> [raised |-> FALSE, items |-> extends.names]

\* _resolve_recursive, lines 321-349: visiting holds the namespaces on the
\* way down, and the servers found are kept when the call raises.
RECURSIVE resolve_forms(_, _, _), resolve_parents(_, _, _, _)
resolve_forms(g, n, path) ==
    IF n \in path \/ n \notin ExtNames
    THEN [raised |-> FALSE, servers |-> {}]
    ELSE IF ~g[n].present THEN [raised |-> FALSE, servers |-> {}]
    ELSE LET it == iterate(g[n].extends) IN
         IF it.raised THEN [raised |-> TRUE, servers |-> ExtServers(n)]
         ELSE resolve_parents(g, it.items, path \cup {n}, ExtServers(n))

resolve_parents(g, items, path, acc) ==
    IF items = <<>> THEN [raised |-> FALSE, servers |-> acc]
    ELSE LET r == resolve_forms(g, Head(items), path) IN
         IF r.raised THEN [raised |-> TRUE, servers |-> acc \cup r.servers]
         ELSE resolve_parents(g, Tail(items), path, acc \cup r.servers)

\* resolve_namespace(namespace), lines 299-319, on tables that are loaded.
ResolveExtends(n) ==
    /\ nresolve < MaxResolves
    /\ nresolve' = nresolve + 1
    /\ ext_name' = n
    /\ ext_out' =
          IF ~ext_table[n].present
          THEN [status |-> "raised", error |-> "NamespaceInheritanceError",
                servers |-> {}]
          ELSE LET r == resolve_forms(ext_table, n, {}) IN
               IF r.raised
               THEN [status |-> "raised", error |-> "TypeError",
                     servers |-> {}]
               ELSE [status |-> "returned", error |-> "none",
                     servers |-> r.servers]
    /\ UNCHANGED <<ext_table, outsideExtends>>

ExtendsNext == \E n \in ExtNames : ResolveExtends(n)

(***************************************************************************)
(* Part 20.  Endpoint names: resolve_endpoint_to_servers, and the users    *)
(* of a connection's namespace: handle_initialize, get_servers and search. *)
(* A name may be a namespace, a group, both or neither; the registry holds *)
(* the tables of an accepted configuration and a manifest of all servers.  *)
(***************************************************************************)

\* Bound of the model.
MaxUses == 1        \* uses of a name as a namespace

\* A group: not defined, or a list of one or two namespace names.
GroupDefs ==
    {[defined |-> FALSE, namespaces |-> <<>>]}
    \cup {[defined |-> TRUE, namespaces |-> l] :
            l \in SeqsUpTo(NsNames, MaxRefs) \ {<<>>}}

\* validate_groups, config_watcher.py lines 390-448: every name of a group's
\* list is a namespace of the configuration. "a" is no group here.
GroupTables(g) ==
    {gr \in [NsNames -> GroupDefs] :
        /\ ~gr["a"].defined
        /\ \A n \in NsNames : \A i \in DOMAIN gr[n].namespaces :
              g[gr[n].namespaces[i]].form # "absent"}

\* The manifest build makes of all the servers.
BuiltManifest ==
    [s \in ServerNames |->
        [built |-> TRUE, name |-> FALSE, cat |-> "none", tool |-> "none"]]

\* resolve_group_to_servers, lines 420-452: the servers of the namespaces
\* of the group; a namespace that fails to resolve is passed over.
resolve_group_to_servers(g, gr, n) ==
    UNION {resolve_namespace(g, gr[n].namespaces[i]).servers :
             i \in DOMAIN gr[n].namespaces}

\* resolve_endpoint_to_servers, lines 498-528, for a name: a group first,
\* then a namespace.
resolve_endpoint_to_servers(g, gr, n) ==
    IF gr[n].defined
    THEN LET s == resolve_group_to_servers(g, gr, n) IN
         [error |-> s = {}, servers |-> s]
    ELSE IF g[n].form # "absent"
    THEN LET r == resolve_namespace(g, n) IN
         [error |-> r.raised, servers |-> r.servers]
    ELSE [error |-> TRUE, servers |-> {}]

\* handle_initialize, server.py lines 329-340, with _validate_namespace,
\* lines 81-93: resolve_namespace of the name when the name is a valid
\* endpoint, no servers otherwise.
handle_initialize(g, gr, n) ==
    IF ~resolve_endpoint_to_servers(g, gr, n).error THEN resolve_namespace(g, n)
    ELSE [raised |-> FALSE, servers |-> {}]

\* handle_initialize with the name as the connection's namespace.
Initialize(n) ==
    /\ nuse < MaxUses
    /\ nuse' = nuse + 1
    /\ LET r == handle_initialize(namespaces, ep_groups, n) IN
       ep_use' = [by |-> "initialize", name |-> n, raised |-> r.raised,
                  servers |-> r.servers]
    /\ UNCHANGED <<ep_groups, outsideEndpoint>>

\* get_servers(namespace), lines 171-188.
GetServers(n) ==
    /\ nuse < MaxUses
    /\ nuse' = nuse + 1
    /\ LET r == get_servers(namespaces, BuiltManifest, n) IN
       ep_use' = [by |-> "get_servers", name |-> n, raised |-> r.raised,
                  servers |-> r.servers]
    /\ UNCHANGED <<ep_groups, outsideEndpoint>>

\* ManifestQuery.search("", namespace, max_depth = 1), lines 545-668: every
\* server the namespace gives is in the results.
SearchUnder(n) ==
    /\ nuse < MaxUses
    /\ nuse' = nuse + 1
    /\ LET r == search(namespaces, BuiltManifest, "empty", n, 1) IN
       ep_use' = [by |-> "search", name |-> n, raised |-> r.raised,
                  servers |-> r.results]
    /\ UNCHANGED <<ep_groups, outsideEndpoint>>

EndpointNext ==
    \/ \E n \in NsNames : Initialize(n)
    \/ \E n \in NsNames : GetServers(n)
    \/ \E n \in NsNames : SearchUnder(n)

(***************************************************************************)
(* Specifications. Each one runs one part of the gateway and keeps the     *)
(* variables of the other parts at rest.                                   *)
(***************************************************************************)

\* The state a run starts in. run tells which part of the gateway is
\* exercised; the other parts are at rest.
\*   "child"    one ServerProcess after construction and spawn_servers: the
\*              record is empty, its _start_server task has not run, and two
\*              callers exist
\*   "restart"  the same with one caller
\*   "reload"   the pool after main() with --no-reload: a record with its
\*              start task for every enabled server of the config
\*   "watch"    the same with the watcher, which has recorded the file's
\*              modification time
\*   "startup"  the same right after load_config, the watcher constructed
\*              and not started
\*   "ns"       a namespace table and a namespace to resolve and check
\*   "ep"       a namespace table with isolated namespaces
\*   "read"     a child about to write to its stdout and a _read_message
\*              call entering its loop
\*   "long"     the same with about max_lines lines before the reply
\*   "name"     a server name without "__" and a tool name
\*   "pool"     a ServerManager after construction, spawn_servers about to
\*              run over a config of two specs
\*   "exec"     a SandboxExecutor with its manifest and a code about to be
\*              executed
\*   "api"      a namespace table and sandboxed code of a namespace, about to
\*              use the capability proxy
\*   "valid"    a code about to be validated
\*   "search"   a built manifest, a namespace table, and a query about to be
\*              searched at every depth
\*   "build"    a CapabilityRegistry after construction and the tools of the
\*              servers, about to be built
\*   "event"    an EventHookManager with its callbacks registered
\*   "config"   a registry that holds the tables of the configuration
\*   "loop"     the event loop with handle_execute and three other tasks
\*   "names"    a pool constructed with a server list, before spawn_servers
\*   "health"   a built manifest and the event hooks initialised
\*   "sandbox"  a SandboxExecutor with its manifest, a valid code of a
\*              namespace about to be executed, and a host proxy
\*   "extends"  a registry that holds the namespaces of an accepted
\*              configuration, extends in any accepted form
\*   "endpoint" a registry with the namespaces and groups of an accepted
\*              configuration and a manifest of all servers
Boot(run) ==
    /\ process = "None"
    /\ tools = "none"
    /\ restart_count = 0
    /\ lock = "free"
    /\ waiters = <<>>
    /\ pipe = <<>>
    /\ pc = [t \in Tasks |->
                CASE run = "child" /\ t \in Callers -> "idle"
                  [] run = "restart" /\ t = "c1" -> "idle"
                  [] run \in {"child", "restart"} /\ t = StartTask -> "spawn"
                  [] OTHER -> "off"]
    /\ ret = [t \in Tasks |-> IF t = StartTask THEN "task" ELSE "mgr"]
    /\ callNo = [t \in Tasks |-> 0]
    /\ nspawn = 0
    /\ ncalls = 0
    /\ restartSpawns = 0
    /\ succStarts = 0
    /\ current_config \in
          IF run \in {"reload", "watch", "startup"} THEN Configs
          ELSE {EmptyCfg}
    /\ manager_config = current_config
    /\ servers = [n \in Names |->
                    IF n \in DOMAIN current_config /\ Enabled(current_config[n])
                    THEN [rid |-> 1, st |-> "created"]
                    ELSE [rid |-> 0, st |-> "none"]]
    /\ detached = {}
    /\ reloading = FALSE
    /\ rl = Idle
    /\ file = [kind |-> "valid", cfg |-> current_config, mtime |-> 0]
    /\ last_mtime = IF run = "startup" THEN NoMtime ELSE 0
    /\ wpc = IF run = "watch" THEN "poll"
             ELSE IF run = "startup" THEN "start" ELSE "off"
    /\ nwrites = 0
    /\ nreq = 0
    /\ rejected = FALSE
    /\ refused = 0
    /\ repeat = "none"
    /\ namespaces \in
          IF run = "ns" THEN Graphs
          ELSE IF run \in {"ep", "api"} THEN EndpointTables
          ELSE IF run \in {"exec", "sandbox"} THEN ExecTables
          ELSE IF run = "search" THEN SearchTables
          ELSE IF run = "endpoint" THEN ConfigTables
          ELSE {[n \in NsNames |->
                   [form |-> "absent", servers |-> {}, extends |-> <<>>]]}
    /\ target \in IF run \in {"ns", "api", "sandbox"} THEN NsNames
                 ELSE {"a"}
    /\ stack = <<>>
    /\ visiting = {}
    /\ resolved = {}
    /\ result = <<>>
    /\ npc = IF run = "ns" THEN "call" ELSE "off"
    /\ nvisits = 0
    /\ hostOut = NoOut
    /\ driverOut = NoOut
    /\ isolated \in
          IF run = "ep"
          THEN SUBSET {n \in NsNames : namespaces[n].form = "dict"}
          ELSE {{}}
    /\ defaultOut = NoDefault
    /\ groupOut = NoGroup
    /\ lines \in IF run = "read" THEN Streams
                 ELSE IF run = "long" THEN LongStreams ELSE {<<>>}
    /\ pos = 0
    /\ buffer = <<>>
    /\ line_count = 0
    /\ rpc = IF run \in {"read", "long"} THEN "read" ELSE "off"
    /\ rout = "none"
    /\ npauses = 0
    /\ server_name \in
          IF run = "name" THEN {s \in Strings : Occurs(s, Sep) = {}}
          ELSE {<<>>}
    /\ tool_name \in IF run = "name" THEN Strings ELSE {<<>>}
    /\ prefixed_name = <<>>
    /\ parts = NoParts
    /\ enabled \in IF run = "pool" THEN [PoolNames -> BOOLEAN]
                   ELSE {[n \in PoolNames |-> FALSE]}
    /\ next_spec = IF run = "pool" THEN 1 ELSE Len(SpecSeq) + 1
    /\ pool = [n \in PoolNames |-> NoRecord]
    /\ fate = [n \in PoolNames |-> "none"]
    /\ called = [n \in PoolNames |-> {}]
    /\ request = [no |-> 0, server |-> "none", tool |-> "none",
              child |-> "unknown", st |-> "none"]
    /\ code \in IF run = "exec" THEN Codes
                ELSE {[encodes |-> TRUE, size |-> "small", parses |-> TRUE,
                       import |-> "none", builtin |-> "none"]}
    /\ launched = 0
    /\ outcome = [kind |-> "none"]
    /\ xpc = IF run = "exec" THEN "idle" ELSE "done"
    /\ reply = NoReply
    /\ proxies = {}
    /\ pending_calls = {}
    /\ apiOut = NoApi
    /\ napi = IF run = "api" THEN 0 ELSE MaxApiCalls
    /\ text \in IF run = "valid" THEN Texts
                ELSE {[size |-> "small", chars |-> <<>>]}
    /\ verdict = IF run = "valid" THEN NoVerdict
                 ELSE [raised |-> FALSE, valid |-> TRUE, error |-> <<>>]
    /\ manifest \in IF run = "search" THEN [ServerNames -> Profiles]
                    ELSE {[s \in ServerNames |->
                             [built |-> FALSE, name |-> FALSE,
                              cat |-> "none", tool |-> "none"]]}
    /\ query \in IF run = "search" THEN {"long", "empty"} ELSE {"empty"}
    /\ search_ns \in IF run = "search" THEN {"None", "a", "c"} ELSE {"None"}
    /\ answers = [d \in Depths |-> NoSearch]
    /\ all_tools \in IF run = "build" THEN ToolTables
                     ELSE {[s \in BuildServers |-> <<"absent">>]}
    /\ built = Empty
    /\ first = Empty
    /\ bpc = IF run = "build" THEN 0 ELSE 3
    /\ hooks \in IF run = "event" THEN HookTables
                 ELSE {[e \in EventTypes |-> <<>>]}
    /\ ran = <<>>
    /\ last_event = <<>>
    /\ event_history = <<>>
    /\ nrecorded = IF run = "event" THEN 0 ELSE MaxEvents
    /\ rebuilt = 0
    /\ trigger_out = "none"
    /\ reg_namespaces \in
          IF run = "config" THEN ConfigTables
          ELSE {[n \in NsNames |->
                   [form |-> "absent", servers |-> {}, extends |-> <<>>]]}
    /\ reg_manifest = TRUE
    /\ config_namespaces = reg_namespaces
    /\ answer = NoLookup
    /\ loop_thread = "loop"
    /\ subprocess = "none"
    /\ deadline = 0
    /\ waited = 0
    /\ progress = [t \in OtherTasks |-> 0]
    /\ nexec = IF run = "loop" THEN 0 ELSE MaxExecs
    /\ list_config \in IF run = "names" THEN ListConfigs ELSE {<<>>}
    /\ pool_names = {}
    /\ ppc = IF run = "names" THEN "new" ELSE "off"
    /\ napply = 0
    /\ manifest_status \in IF run = "health" THEN Manifests
                           ELSE {[n \in HealthNames |-> "absent"]}
    /\ last_health = [via |-> "none", server |-> "s1", status |-> ""]
    /\ nhealth = IF run = "health" THEN 0 ELSE MaxNotes
    /\ sb_pc = IF run = "sandbox" THEN "idle" ELSE "done"
    /\ driver_pending = <<>>
    /\ executor_calls = 0
    /\ child_requests = 0
    /\ ndriver = IF run = "sandbox" THEN 0 ELSE MaxDriverCalls
    /\ nhost = IF run = "sandbox" THEN 0 ELSE MaxHostCalls
    /\ ext_table \in
          IF run = "extends" THEN AcceptedTables
          ELSE {[n \in ExtNames |->
                   [present |-> FALSE,
                    extends |-> [form |-> "omitted", names |-> <<>>]]]}
    /\ ext_name = <<"a">>
    /\ ext_out = [status |-> "none", error |-> "none", servers |-> {}]
    /\ nresolve = IF run = "extends" THEN 0 ELSE MaxResolves
    /\ ep_groups \in
          IF run = "endpoint" THEN GroupTables(namespaces)
          ELSE {[n \in NsNames |-> [defined |-> FALSE, namespaces |-> <<>>]]}
    /\ ep_use = [by |-> "none", name |-> "a", raised |-> FALSE,
                 servers |-> {}]
    /\ nuse = IF run = "endpoint" THEN 0 ELSE MaxUses

SpecChild == Boot("child") /\ [][ChildNext]_vars

SpecRestart == Boot("restart") /\ [][ChildNext]_vars

\* The child with its tasks under the scheduling of the loop: a task that
\* is handed the lock runs, a deadline passes, a reader is resumed when a
\* line, the end of the stream or the deadline is there, a sleep ends, and
\* a terminated process is reaped. Whether a request arrives, whether the
\* child reads its stdin, dies, or a caller is cancelled is left open.
LoopFairness ==
    /\ \A t \in Tasks : WF_vars(SpawnOk(t) \/ SpawnFails(t))
    /\ \A t \in Tasks : WF_vars(InitLockGranted(t))
    /\ \A t \in Tasks :
          WF_vars(InitReply(t) \/ InitNoReply(t) \/ InitTimeout(t))
    /\ \A t \in Tasks : WF_vars(DiscLockGranted(t))
    /\ \A t \in Tasks :
          WF_vars(DiscReply(t) \/ DiscNoReply(t) \/ DiscTimeout(t))
    /\ \A t \in Callers : WF_vars(CallLockGranted(t))
    /\ \A t \in Callers :
          WF_vars(CallResult(t) \/ CallError(t) \/ CallNoReply(t)
                     \/ CallTimeout(t))
    /\ \A t \in Callers : WF_vars(CallSendBroken(t))
    /\ \A t \in Tasks : WF_vars(StopWaitDone(t))

SpecCalls == Boot("child") /\ [][ChildNext]_vars /\ LoopFairness

SpecReload == Boot("reload") /\ [][ReloadNext]_vars

SpecWatch == Boot("watch") /\ [][WatchNext]_vars

SpecStartup == Boot("startup") /\ [][StartupNext]_vars /\ WatchFairness

SpecNs == Boot("ns") /\ [][NsNext]_vars /\ WF_vars(NsNext)

SpecEp == Boot("ep") /\ [][EpNext]_vars

SpecRead == Boot("read") /\ [][ReadNext]_vars

SpecLong == Boot("long") /\ [][ReadNext]_vars

SpecName == Boot("name") /\ [][NameNext]_vars

SpecPool == Boot("pool") /\ [][PoolNext]_vars

SpecExec == Boot("exec") /\ [][ExecNext]_vars

SpecApi == Boot("api") /\ [][ApiNext]_vars

SpecValid == Boot("valid") /\ [][ValidNext]_vars

SpecSearch == Boot("search") /\ [][SearchNext]_vars

SpecBuild == Boot("build") /\ [][BuildNext]_vars

SpecEvent == Boot("event") /\ [][EventNext]_vars

SpecConfig == Boot("config") /\ [][ConfigNext]_vars

SpecLoop == Boot("loop") /\ [][LoopNext]_vars

SpecNames == Boot("names") /\ [][NamesNext]_vars

SpecHealth == Boot("health") /\ [][HealthNext]_vars

SpecSandbox == Boot("sandbox") /\ [][SandboxNext]_vars

SpecExtends == Boot("extends") /\ [][ExtendsNext]_vars

SpecEndpoint == Boot("endpoint") /\ [][EndpointNext]_vars
(***************************************************************************)
(* Properties of the child supervisor.                                     *)
(***************************************************************************)

\* The suspension points at which a task has written a request and awaits
\* the reply, and those at which a start() of the record is under way.
Waits == {"init_wait", "disc_wait", "call_wait"}
Starting == {"spawn", "sleep", "init_lock", "init_wait", "disc_lock",
             "disc_wait", "stop_wait"}
Quiet == \A t \in Tasks : pc[t] \notin Starting

\* C1: at most one send-then-await-reply cycle is in flight on the child:
\* whatever the interleaving of calls, start's initialize exchange and
\* tools/list discovery, at most one task has written a request and is
\* waiting for the reply, and that task holds the child's lock.
C1_OneCycleInFlight ==
    /\ Cardinality({t \in Tasks : pc[t] \in Waits}) <= 1
    /\ \A t \in Tasks : pc[t] \in Waits => lock = t

\* C1's case: one task awaits its reply while another is queued behind it.
C1_Witness ==
    /\ \E t \in Tasks : pc[t] \in Waits
    /\ \E u \in Callers : pc[u] = "call_lock"
    /\ process = "running"

\* C2: replies are matched to requests in order: a tools/call reply that a
\* call returns as its result is the reply to that call's own request,
\* also when the call follows one that ended by the 350 s timeout or by
\* cancellation.
C2_OwnReply ==
    [][\A t \in Callers :
          (CallResult(t) /\ NextReply(St).m = "call")
          => NextReply(St).id = callNo[t]
      ]_childVars

\* C3, first part: the restart counter is always between 0 and the bound.
C3_CounterInRange == restart_count \in 0..max_restarts

\* C3, second part: a call that finds the child dead with the counter at the
\* bound is refused without a process being spawned.
C3_Refuses ==
    \A t \in Callers :
        (CallStart(t) /\ restart_count = max_restarts /\ process # "running")
        => /\ pc'[t] = "idle"
           /\ nspawn' = nspawn
           /\ process' = process
           /\ restart_count' = restart_count

\* C3 as stated: the counter is in range, the refusal spawns nothing, and a
\* dead child whose counter is at the bound stays dead.
C3_StaysDead ==
    /\ []C3_CounterInRange
    /\ [][C3_Refuses]_childVars
    /\ [][(restart_count = max_restarts /\ process # "running")
            => process' # "running"]_childVars

\* C3, amended: the same, for a dead child at the bound on which no start()
\* is still under way; such a child stays dead with its counter at the
\* bound.
C3_StaysDeadWhenQuiet ==
    /\ []C3_CounterInRange
    /\ [][C3_Refuses]_childVars
    /\ [][(restart_count = max_restarts /\ process # "running" /\ Quiet)
            => (process' # "running" /\ restart_count' = max_restarts
                /\ Quiet')]_childVars

\* C3's case: no process was ever spawned, four calls were made, three of
\* them counted a restart attempt and the fourth was refused.
C3_Witness ==
    /\ restart_count = max_restarts
    /\ process # "running"
    /\ Quiet
    /\ nspawn = 0
    /\ ncalls = max_restarts + 1

\* C4 as stated: no more than 3 restart spawns of the child ever happen.
C4_AtMostThreeRestarts == restartSpawns <= max_restarts

\* C4, amended: a successful start() resets the counter, so restart spawns
\* are bounded by 3 per successful start plus 3.
C4_ThreePerSuccessfulStart ==
    restartSpawns <= max_restarts * (1 + succStarts)

\* C4's case: three restarts were spawned, none completed its start
\* protocol, and the child is dead with the counter at the bound.
C4_Witness ==
    /\ restartSpawns = max_restarts
    /\ succStarts = 0
    /\ restart_count = max_restarts
    /\ process # "running"
    /\ Quiet

(***************************************************************************)
(* Properties of the hot reload.                                           *)
(***************************************************************************)

\* A step of a reload_config call: it begins, goes on after a stop(), or
\* ends.
ReloadStep == reloading' # reloading \/ rl' # rl \/ current_config' # current_config

\* The config the reload_config call of the step applies.
NewOf == IF reloading THEN rl.new
         ELSE IF reloading' THEN rl'.new ELSE current_config'

\* The names the call has to touch.
Affected == to_remove(current_config, NewOf) \cup to_add(current_config, NewOf)
               \cup to_update(current_config, NewOf)

\* The pool's side of a reload: no step of reload_config touches the entry of
\* a name whose config entry is the same in both configs, and when the call
\* ends normally the removed names have no record, the enabled added and
\* updated names have a record made by this call whose start is pending, and
\* the disabled ones have none.
ReloadPoolEffect ==
    [][ReloadStep =>
        /\ \A n \in Names \ Affected : servers'[n] = servers[n]
        /\ (~reloading' /\ current_config' = NewOf /\ manager_config' = NewOf) =>
              /\ \A n \in to_remove(current_config, NewOf) :
                    servers'[n].st = "none"
              /\ \A n \in to_add(current_config, NewOf)
                            \cup to_update(current_config, NewOf) :
                    IF Enabled(NewOf[n])
                    THEN /\ servers'[n].st = "created"
                         /\ servers'[n].rid # servers[n].rid
                    ELSE servers'[n].st = "none"]_vars

\* C5: reload_config stops the children whose name is in to_remove or
\* to_update: no record that a reload has dropped from the pool has a running
\* process.
C5_DroppedChildrenStopped == \A r \in detached : r.st # "running"

\* C6: reload_config(c) called when the current config is c, as it is right
\* after reload_config(c), stops no child, starts none and drops no record.
C6_SecondApplyChangesNothing ==
    [][(nreq' # nreq /\ ~reloading) =>
          \A order \in Orders :
             DirectRequest(current_config, order) =>
              /\ servers' = servers
              /\ detached' = detached
              /\ current_config' = current_config
              /\ manager_config' = manager_config
              /\ ~reloading']_vars

\* A config has been applied twice in a row, with a disabled server in it
\* and a child that is down.
C6_Witness ==
    /\ repeat = "again"
    /\ current_config["B"] = Off1
    /\ \E n \in Names : servers[n].st = "down"

\* C7: a reload_config call made while another is in progress changes neither
\* the pool nor the config references nor the call in progress; the guard is
\* set only while a call is suspended in a stop(), so it is cleared when the
\* call ends, normally or by cancellation; and a call made while the guard is
\* clear is accepted: the step is that of a reload_config call for the config
\* that is then being applied or has become the current one.
C7_OneReloadAtATime ==
    /\ [][(reloading /\ nreq' # nreq) =>
             /\ servers' = servers
             /\ detached' = detached
             /\ current_config' = current_config
             /\ manager_config' = manager_config
             /\ rl' = rl
             /\ reloading']_vars
    /\ [](reloading <=> rl.phase \in {"remove_wait", "update_wait"})
    /\ [][(nreq' # nreq /\ ~reloading) =>
             LET c == IF reloading' THEN rl'.new ELSE current_config'
             IN \E order \in Orders : DirectRequest(c, order)]_vars

\* The second request was refused by the guard, the reload in progress has
\* ended, and the third request is being served.
C7_Witness == refused = 2 /\ nreq = 3 /\ reloading

\* C8: when the watcher meets a file that does not load, nothing is applied:
\* the pool, the children and the config references stay as they are and the
\* watcher goes back to polling; a file that loads is handed to
\* reload_config.
C8_InvalidKeepsRunning ==
    /\ [][(wpc = "settle" /\ wpc' # "settle" /\ file.kind # "valid") =>
             /\ servers' = servers
             /\ detached' = detached
             /\ current_config' = current_config
             /\ manager_config' = manager_config
             /\ reloading' = reloading
             /\ rl' = rl
             /\ wpc' = "poll"]_vars
    /\ [][(wpc = "settle" /\ wpc' # "settle" /\ file.kind = "valid") =>
             \/ reloading' /\ rl'.new = file.cfg /\ wpc' = "reload"
             \/ ~reloading' /\ current_config' = file.cfg /\ wpc' = "poll"]_vars

\* The watcher has rejected a file, and the valid file written after it is
\* the current config, applied by a reload that has replaced B's record.
C8_Witness ==
    /\ rejected
    /\ nwrites = 2
    /\ file.kind = "valid"
    /\ last_mtime = file.mtime
    /\ wpc = "poll"
    /\ current_config = file.cfg
    /\ servers["B"].rid = 2

(***************************************************************************)
(* Properties of the namespace resolution and the access checks.           *)
(***************************************************************************)

Range(f) == {f[i] : i \in DOMAIN f}

\* The namespaces reachable from the ones of S through extends.
RECURSIVE Reach(_)
Reach(S) ==
    LET T == S \cup {m \in NsNames :
                       \E n \in S : \E i \in DOMAIN namespaces[n].extends :
                          namespaces[n].extends[i] = m}
    IN IF T = S THEN S ELSE Reach(T)

\* C9: once resolve_namespace(N) has returned, the host's check and the
\* driver's check of N for a server S allow S exactly when S is in the
\* resolved list, and a denial names both N and S (namespaces given as
\* dicts).
C9_AccessMatchesResolve ==
    (/\ npc = "done"
     /\ \A n \in NsNames : namespaces[n].form # "list"
     /\ hostOut # NoOut
     /\ driverOut # NoOut) =>
        \A o \in {hostOut, driverOut} :
            \/ o.allowed = "yes" /\ o.server \in Range(result)
            \/ /\ o.allowed = "no"
               /\ o.server \notin Range(result)
               /\ {target, o.server} \subseteq o.names

\* A namespace reaches itself through extends.
HasCycle ==
    \E n \in NsNames :
       \E i \in DOMAIN namespaces[n].extends :
          n \in Reach({namespaces[n].extends[i]})

\* C11: on a table with a cycle in extends, one resolve_namespace call enters
\* no more namespaces than the table holds.
C11_VisitsBounded ==
    HasCycle =>
       nvisits <= Cardinality({n \in NsNames : namespaces[n].form # "absent"})

ListedIn(s) == {n \in NsNames : s \in get_servers_from_ns(namespaces[n])}

\* The function resolve_recursive gives what the walk of part 3 returns.
ResolveAgrees ==
    npc = "done" => result = sorted(resolve_recursive(namespaces, target, {}))

\* C12: a server that only isolated namespaces list is not among the servers
\* of the default endpoint.
C12_IsolatedInvisible ==
    defaultOut.done =>
       \A s \in ServerNames :
          (ListedIn(s) # {} /\ ListedIn(s) \subseteq isolated) =>
              s \notin Range(defaultOut.servers)

\* C13: the config loader accepts a group only if its list of references is
\* not empty, every reference names a namespace of the table, and no
\* isolated namespace is referred to without "!".
C13_GroupAccepted ==
    groupOut.config = "accepted" =>
       /\ groupOut.refs # <<>>
       /\ \A i \in DOMAIN groupOut.refs :
             /\ namespaces[groupOut.refs[i].name].form # "absent"
             /\ (groupOut.refs[i].name \in isolated) => groupOut.refs[i].bang

(***************************************************************************)
(* Properties of the stdout reader.                                        *)
(***************************************************************************)

\* C14: whatever blank lines and lines that are not JSON the child writes
\* before its reply, _read_message returns the reply. Stated for a reply
\* written on one line, a read without a pause, and noise without the error
\* pattern the reader looks for.
C14_NoiseSkipped ==
    (/\ rpc = "returned"
     /\ npauses = 0
     /\ lines[Len(lines)] = "reply"
     /\ \A i \in DOMAIN lines : lines[i] # "chunk") => rout = "reply"

(***************************************************************************)
(* Properties of the tool names.                                           *)
(***************************************************************************)

\* C15: for a server name without "__" and any tool name, parsing the
\* prefixed name gives the two names back.
C15_RoundTrip ==
    parts.ok # "none" =>
       /\ parts.ok = "yes"
       /\ parts.server = server_name
       /\ parts.tool = tool_name

(***************************************************************************)
(* Properties of the pool as its callers see it.                           *)
(***************************************************************************)

\* A step in which ServerManager.call_tool is entered.
CallEntered == request'.no # request.no

\* C16: a tools/call request is written only to the process of the record
\* the call names, and carries the tool name the call was given; a call that
\* names an alive child of the pool writes its request at once; a call that
\* names no record of the pool raises the unknown-server error and leaves
\* every record, every process and every pipe as it was.
C16_RoutedByName ==
    [][/\ called' # called =>
            /\ request'.server \in PoolNames
            /\ called' = [called EXCEPT ![request'.server] =
                                            @ \cup {request'.tool}]
       /\ CallEntered =>
            IF request'.server \in PoolNames /\ pool[request'.server].in
            THEN /\ request'.st \in {"sent", "restart"}
                 /\ request'.server \in DOMAIN get_all_tools(pool) =>
                        /\ request'.st = "sent"
                        /\ request'.tool \in called'[request'.server]
            ELSE /\ request'.st = "unknown"
                 /\ UNCHANGED <<called, pool, fate, next_spec>>]_vars

\* Both children alive, and the one call made went to y alone.
C16_Witness ==
    /\ request.st = "sent" /\ request.server = "y" /\ request.tool = "t2"
    /\ called = [n \in PoolNames |-> IF n = "y" THEN {"t2"} ELSE {}]
    /\ pool["x"].process = "running" /\ pool["x"].in

StartFails(n) == fate'[n] = "failed" /\ fate[n] # "failed"

\* C18: spawn_servers comes to every spec whatever became of the starts
\* before it; every enabled spec it has passed has a record, made with its
\* own start task; and a step in which the start of one child fails changes
\* nothing of any other child nor of the loop.
C18_FailureStaysLocal ==
    /\ [](/\ next_spec <= Len(SpecSeq) => ENABLED SpawnServersStep
          /\ \A k \in 1..Len(SpecSeq) :
                (k < next_spec /\ enabled[SpecSeq[k]]) =>
                    /\ fate[SpecSeq[k]] # "none"
                    /\ fate[SpecSeq[k]] = "created" =>
                            pool[SpecSeq[k]] = NewRecord)
    /\ [][\A n \in PoolNames :
            StartFails(n) =>
                /\ next_spec' = next_spec
                /\ \A o \in PoolNames \ {n} :
                        /\ pool'[o] = pool[o]
                        /\ fate'[o] = fate[o]
                        /\ called'[o] = called[o]]_vars

\* The start of x has failed; y was started after it and is alive with its
\* tools.
C18_Witness ==
    /\ fate["x"] = "failed" /\ pool["x"].in /\ pool["x"].process = "None"
    /\ fate["y"] = "started" /\ pool["y"].process = "running"
    /\ request.no = 0

(***************************************************************************)
(* Properties of SandboxExecutor.execute.                                  *)
(***************************************************************************)

\* The validator has rejected the code: it returned (False, message).
Rejected == ~validate_code(code).raised /\ ~validate_code(code).valid

\* C19: for a code the validator rejects, execute returns status error,
\* result null, the traceback "Validation error: " followed by the
\* validator's message, and execution_time_ms 0, and launches no subprocess.
C19_ValidationError ==
    Rejected =>
        /\ launched = 0
        /\ xpc # "running"
        /\ xpc = "done" =>
              /\ reply = Record("error", "null", reply.traceback, 0)
              /\ Head(reply.traceback) = "Validation error: "
              /\ Tail(reply.traceback) = validate_code(code).error

\* A code with a blocked import was refused, under a manifest whose table
\* has a namespace in list form.
C19_Witness ==
    /\ xpc = "done"
    /\ code.import = "os" /\ code.parses /\ code.size = "small"
    /\ code.encodes
    /\ reply.traceback =
            <<"Validation error: ", "Blocked import detected: ", "os">>
    /\ WrapRaises(namespaces)

\* C20: execute never raises: a call that is over has returned a record with
\* status, result, traceback and execution_time_ms, and its status is
\* success only if the subprocess exited with code 0 within the timeout and
\* its output parsed as JSON.
C20_NeverRaises ==
    xpc = "done" =>
        /\ reply.status \in {"success", "error"}
        /\ DOMAIN reply =
                {"status", "result", "traceback", "execution_time_ms"}
        /\ reply.status = "success" =>
                /\ outcome.kind = "exit"
                /\ outcome.returncode = 0
                /\ outcome.stdout \in {"object", "array"}

(***************************************************************************)
(* Properties of the capability proxy.                                     *)
(***************************************************************************)

\* C21: every call recorded through the proxy targets a server of the
\* resolved server set of the caller's namespace, and a request for a server
\* outside that set raises a permission error.
C21_CallsInsideNamespace ==
    LET inside == resolve_recursive(namespaces, target, {}) IN
    /\ \A c \in pending_calls : c.server \in inside
    /\ (apiOut # NoApi /\ apiOut.server \notin inside) =>
            apiOut.raised = "PermissionError"

(***************************************************************************)
(* Properties of validate_code.                                            *)
(***************************************************************************)

\* C22: validate_code returns (True, "") exactly when the code is within the
\* size limit, is a module, and holds neither an import of a denied module
\* nor a call of a denied callable by its bare name; a call through an
\* attribute and a name in a comment do not count.
C22_ValidExactly ==
    verdict # NoVerdict =>
        LET module == ast_parse(Expand(text.chars)) IN
        (verdict.valid /\ verdict.error = <<>>) <=>
            /\ text.size = "small"
            /\ module.ok
            /\ "I" \notin module.found
            /\ "C" \notin module.found

(***************************************************************************)
(* Properties of ManifestQuery.search.                                     *)
(***************************************************************************)

\* C23: for a query of two characters or more the servers in the results
\* are the same at every depth.
C23_DepthKeepsServers ==
    query = "long" =>
        \A d, e \in Depths :
            (answers[d] # NoSearch /\ answers[e] # NoSearch) =>
                answers[d].results = answers[e].results

\* C24: with a namespace given, every server of the results and of the
\* three match lists is both in resolve(namespace) and in the manifest.
C24_SearchInsideNamespace ==
    \A d \in Depths :
        (search_ns # "None" /\ answers[d] # NoSearch) =>
            LET a == answers[d] IN
            \A s \in a.results \cup a.servers \cup a.categories \cup a.tools :
                /\ s \in resolve_recursive(namespaces, search_ns, {})
                /\ manifest[s].built

\* Under namespace a, which resolves to s1 alone, an empty query at depth 2
\* returns s1 with its category while s2 and s3 are in the manifest and
\* have tools too.
C24_Witness ==
    /\ search_ns = "a" /\ query = "empty"
    /\ resolve_recursive(namespaces, "a", {}) = {"s1"}
    /\ \A s \in ServerNames : manifest[s].built /\ manifest[s].tool # "none"
    /\ answers[2].results = {"s1"} /\ answers[2].tools = {"s1"}

(***************************************************************************)
(* Properties of CapabilityRegistry.build.                                 *)
(***************************************************************************)

\* The entries of a list that are dicts with a name that is a string.
RECURSIVE Named(_)
Named(entries) ==
    IF entries = <<>> THEN 0
    ELSE (IF Head(entries) \in {"plain", "prefixed"} THEN 1 ELSE 0)
         + Named(Tail(entries))

\* C25: build returns a manifest in which the tool_count of every server is
\* the number of its entries that are dicts with a name, and the aggregate
\* tool_count is their sum; build, invalidate_cache, build gives the counts
\* of the first build again.
C25_BuildCounts ==
    LET given == {s \in BuildServers : all_tools[s] # <<"absent">>} IN
    /\ bpc >= 1 =>
          /\ ~first.raised
          /\ DOMAIN first.servers = given
          /\ \A s \in given : first.servers[s] = Named(all_tools[s])
          /\ first.tool_count = Sum([s \in given |-> Named(all_tools[s])],
                                    given)
    /\ bpc = 3 => built = first

(***************************************************************************)
(* Properties of EventHookManager.                                         *)
(***************************************************************************)

\* C26: a trigger runs every callback registered for the type once and in
\* registration order, records one result for each, error for the ones that
\* raise, and performs the side effect of the event type.
C26_EveryCallbackRuns ==
    [][\A e \in EventTypes :
          (<<Trigger(e)>>_vars) =>
              /\ ran' = [i \in 1..Len(hooks[e]) |-> i]
              /\ trigger_out' = "returned"
              /\ last_event' = [i \in 1..Len(hooks[e]) |->
                                  IF hooks[e][i].raises THEN "error"
                                  ELSE "success"]
              /\ rebuilt' = rebuilt + 1]_vars

\* C27: the history holds at most 100 records, the most recent events
\* recorded, in firing order.
C27_HistoryBounded ==
    /\ Len(event_history) <= 100
    /\ Len(event_history) = IF nrecorded < 100 THEN nrecorded ELSE 100
    /\ \A i \in DOMAIN event_history :
          event_history[i] = nrecorded - Len(event_history) + i

\* The 101st event has been recorded and the first one dropped.
C27_Witness ==
    /\ nrecorded = 101
    /\ Len(event_history) = 100
    /\ Head(event_history) = 2

(***************************************************************************)
(* Properties of a configuration change.                                   *)
(***************************************************************************)

\* C28: after a config_change event or a hot-reload every resolve answers
\* from the tables of the new configuration.
C28_ResolveUsesNewTables ==
    [][\A namespace \in NsNames :
          (<<ResolveNamespace(namespace)>>_vars) =>
              answer' = resolve_namespace(config_namespaces, namespace)]_vars

(***************************************************************************)
(* Properties of the start protocol and of the calls (part 1).             *)
(***************************************************************************)

\* A task is between the spawn and the end of the start protocol.
InStart(t) == pc[t] \in {"init_lock", "init_wait", "disc_lock", "disc_wait"}

\* C29: while a start of the child is under way, no tools/call request has
\* been written to it.
C29_NoCallBeforeReady ==
    (\E i \in DOMAIN pipe : pipe[i].m = "call") =>
        \A t \in Tasks : ~InStart(t)

\* A call of the caller is under way.
InCall(t) == pc[t] # "idle"

\* C30: every call comes to its end, the caller that has left call_tool
\* does not hold the lock, and the step in which a call times out leaves the
\* process as it is and spawns none.
C30_EveryCallEnds ==
    /\ \A t \in Callers : InCall(t) ~> ~InCall(t)
    /\ [](\A t \in Callers : ~InCall(t) => lock # t /\ \A i \in DOMAIN waiters : waiters[i] # t)
    /\ [][\A t \in Callers :
             (<<CallTimeout(t)>>_vars) =>
                 /\ process' = process /\ process' = "running"
                 /\ nspawn' = nspawn
                 /\ ~InCall(t)']_vars

(***************************************************************************)
(* Properties of the reader on long streams.                               *)
(***************************************************************************)

\* C31: blank lines and lines that are not JSON do not count toward the
\* limit of 100 lines: a reply on one line that follows any number of them,
\* read without a pause, is returned.
C31_NoiseNotCounted ==
    (/\ rpc = "returned"
     /\ npauses = 0
     /\ lines[Len(lines)] = "reply") => rout = "reply"

(***************************************************************************)
(* Properties of the event loop during execute.                            *)
(***************************************************************************)

\* C32: while execute waits for its subprocess, every other task that has
\* a step to make can make it.
C32_OthersProgress ==
    subprocess = "running" =>
        \A t \in OtherTasks : progress[t] < MaxSteps => ENABLED TaskStep(t)

(***************************************************************************)
(* Properties of the records reload_config has dropped.                    *)
(***************************************************************************)

\* C33: no record that reload_config has stopped and dropped has a running
\* process.
C33_DroppedStaysDead == \A r \in detached : r.st # "running"

(***************************************************************************)
(* Properties of the handle of the record (part 1).                        *)
(***************************************************************************)

\* C34: a process is spawned for the record only when the record holds no
\* running process: no handle of a live process is overwritten.
C34_OneLiveProcess ==
    [][nspawn' > nspawn => process # "running"]_vars

(***************************************************************************)
(* Properties of the names in the pool.                                    *)
(***************************************************************************)

\* C35: after spawn_servers and after every reload_config the names in the
\* pool are the names of the enabled servers of the current configuration.
C35_PoolIsEnabledNames ==
    ppc \in {"spawned", "applied"} =>
        pool_names = {list_config[i].name :
                        i \in {k \in DOMAIN list_config :
                                 list_config[k].enabled # "false"}}

\* C36: once the config file has stopped changing with a valid content, the
\* pool's current config becomes that content and stays it.
C36_EventuallyReconciled ==
    <>[](file.kind = "valid" => current_config = file.cfg)

\* C37: a notification that comes in through on_server_health sets the
\* status of the named server in the manifest to the notified state when the
\* manifest has that server, and leaves the entries of the other servers as
\* they were.
C37_HealthPatchesStatus ==
    [][(nhealth' # nhealth /\ last_health'.via = "handler") =>
         LET n == last_health'.server IN
         /\ manifest_status[n] # "absent" =>
                manifest_status'[n] = last_health'.status
         /\ \A o \in HealthNames \ {n} :
                manifest_status'[o] = manifest_status[o]]_vars

\* C38: no step of execute (its start, a tool invocation of the sandboxed
\* code, its return) invokes the gateway's tool executor or sends a
\* tools/call request to a child; an invocation the driver admits is
\* appended to the driver's pending list and nothing else.
C38_ExecuteCallsNoTool ==
    [][(sb_pc' # sb_pc \/ ndriver' # ndriver) =>
         /\ executor_calls' = executor_calls
         /\ child_requests' = child_requests
         /\ \/ driver_pending' = driver_pending
            \/ \E s \in ServerNames :
                  /\ driver_can_access(namespaces, target, s).allowed = "yes"
                  /\ driver_pending' = Append(driver_pending, s)]_vars

\* An execute has returned after the sandboxed code made two admitted tool
\* invocations, and no tool executor was invoked and no request sent.
C38_Witness ==
    /\ sb_pc = "done"
    /\ Len(driver_pending) >= 2
    /\ executor_calls = 0
    /\ child_requests = 0

\* C39: on an accepted configuration resolve_namespace of a namespace of
\* the configuration returns, and what it returns holds the servers of every
\* namespace its extends names, whether extends is a list, a string or null.
C39_ExtendsFormsResolved ==
    (nresolve > 0 /\ ext_table[ext_name].present) =>
        /\ ext_out.status = "returned"
        /\ \A q \in named_parents(ext_table[ext_name].extends) :
              ExtServers(q) \subseteq ext_out.servers

\* C40: a name resolve_endpoint_to_servers accepts, used as the namespace
\* of initialize, get_servers or search, does not make them raise, and they
\* report or search the servers resolve_endpoint_to_servers gave for it.
C40_EndpointNamesUsable ==
    (nuse > 0 /\
     ~resolve_endpoint_to_servers(namespaces, ep_groups, ep_use.name).error) =>
        /\ ~ep_use.raised
        /\ ep_use.servers =
              resolve_endpoint_to_servers(namespaces, ep_groups,
                                          ep_use.name).servers

====
